---- MODULE Spec2Model ----
(***************************************************************************)
(* A model of the tabox sandbox: the supervisor (run / wait), the watcher  *)
(* thread, the wall-clock watcher thread and the cloned child of the Linux *)
(* backend (src/src/linux/mod.rs), with the kernel state the child's setup *)
(* changes (resource limits, seccomp filter, mounts, wait status), the    *)
(* degraded backend (src/src/macos/mod.rs) with its watcher threads, and   *)
(* main() of the tabox binary (src/src/bin/tabox.rs).                      *)
(***************************************************************************)
EXTENDS Integers, Sequences, FiniteSets, TLC

(***************************************************************************)
(* Bounds of the model.                                                    *)
(***************************************************************************)
\* Number of setter calls applied to SandboxConfiguration::default().
MaxSetters == 3
\* Largest exit code of the user program that is enumerated.
MaxExitCode == 2
\* Largest exit code / signal number enumerated for the status translation.
MaxRawCode == 40

(***************************************************************************)
(* Values.                                                                 *)
(***************************************************************************)
\* Option<T>: a sequence of at most one element.
None == <<>>
Some(v) == <<v>>
IsSome(o) == Len(o) = 1
Unwrap(o) == o[1]

\* Paths are sequences of components; an absolute path starts with "/".
RootPath == <<"/">>
PBin == <<"/", "bin">>
PBinSh == <<"/", "bin", "sh">>
PWork == <<"/", "work">>
PIn == <<"/", "work", "in">>
POut == <<"/", "work", "out">>
PErr == <<"/", "work", "err">>
PRel == <<"rel">>
PTmp == <<"/", "tmp">>
PDevShm == <<"/", "dev", "shm">>
PWorkSub == <<"/", "work", "sub">>

\* Strings given to the program are sequences of characters; "NUL" is the
\* zero byte.
ArgC == <<"-", "c">>
ArgX == <<"x">>
ArgNul == <<"a", "NUL", "b">>
EnvA1 == << <<"A">>, <<"1">> >>
EnvA3 == << <<"A">>, <<"3">> >>
EnvB2 == << <<"B">>, <<"2">> >>
EnvP == << <<"P">>, <<"x">> >>

IsPrefix(p, q) == Len(p) <= Len(q) /\ SubSeq(q, 1, Len(p)) = p

\* Paths that exist on the host.
HostPaths == {RootPath, PBin, PBinSh, PWork, PIn}

\* Signal numbers.
SIGKILL == 9
SIGSEGV == 11
SIGSYS == 31

\* Syscall filter actions and the syscall names libseccomp resolves.
Allow == <<"Allow">>
Kill == <<"Kill">>
Errno(n) == <<"Errno", n>>
KnownSyscalls == {"fork", "vfork", "clone", "chmod", "fchmod", "fchmodat", "getuid"}

\* The resources whose limits the sandbox sets.  RLIM_INFINITY stands for
\* "no limit": every finite limit of the model is smaller.
Resources == {"RLIMIT_AS", "RLIMIT_CPU", "RLIMIT_CORE", "RLIMIT_STACK", "RLIMIT_RSS"}
RLIM_INFINITY == 2000000000

\* ExitStatus.
ExitCode(n) == <<"ExitCode", n>>
Signal(n) == <<"Signal", n>>
Killed == <<"Killed">>

(***************************************************************************)
(* SandboxConfiguration and its setters.                                   *)
(***************************************************************************)
DefaultConfiguration ==
    [ time_limit |-> None,
      memory_limit |-> None,
      stack_limit |-> None,
      executable |-> PBinSh,
      args |-> <<>>,
      env |-> <<>>,
      mount_paths |-> <<>>,
      working_directory |-> RootPath,
      stdin |-> None,
      stdout |-> None,
      stderr |-> None,
      syscall_filter |-> None,
      mount_tmpfs |-> FALSE,
      wall_time_limit |-> None,
      cpu_core |-> None,
      uid |-> 0,
      gid |-> 0,
      mount_proc |-> FALSE ]

DirectoryMount(source, target, writable) ==
    [source |-> source, target |-> target, writable |-> writable]

\* SyscallFilter { default_action, rules }.
SyscallFilter(default_action, rules) ==
    [default_action |-> default_action, rules |-> rules]

\* SyscallFilter::default(), default_action() and add_rule().
SyscallFilterDefault == SyscallFilter(Kill, <<>>)

SetDefaultAction(f, action) == [f EXCEPT !.default_action = action]

\* An add_rule() that puts the new rule in front of the earlier ones.
AddRule_Front(f, syscall, action) == [f EXCEPT !.rules = << <<syscall, action>> >> \o @]

AddRule(f, syscall, action) == [f EXCEPT !.rules = Append(@, <<syscall, action>>)]

\* SyscallFilter::build() without the rule for clone.
SyscallFilterBuild_NoClone(multiprocess, chmod) ==
    LET allow == SetDefaultAction(SyscallFilterDefault, Allow)
        procs == IF ~multiprocess
                 THEN AddRule(AddRule(allow, "fork", Kill), "vfork", Kill)
                 ELSE allow
    IN IF ~chmod
       THEN AddRule(AddRule(AddRule(procs, "chmod", Kill), "fchmod", Kill),
                    "fchmodat", Kill)
       ELSE procs

\* SyscallFilter::build(multiprocess, chmod).
SyscallFilterBuild(multiprocess, chmod) ==
    LET allow == SetDefaultAction(SyscallFilterDefault, Allow)
        procs == IF ~multiprocess
                 THEN AddRule(AddRule(AddRule(allow, "fork", Kill), "vfork", Kill),
                              "clone", Kill)
                 ELSE allow
    IN IF ~chmod
       THEN AddRule(AddRule(AddRule(procs, "chmod", Kill), "fchmod", Kill),
                    "fchmodat", Kill)
       ELSE procs

\* The setter calls the configurations of the model are built from.
SetterCalls ==
    { <<"time_limit", 1>>, <<"memory_limit", 1>>, <<"wall_time_limit", 1>>,
      <<"stdin", PIn>>, <<"stdout", POut>>, <<"stderr", PErr>>,
      <<"stdin", <<"/", "work", "missing">> >>,
      <<"run_on_core", 0>>, <<"mount_tmpfs", TRUE>>,
      <<"working_directory", PWork>>,
      <<"mount", DirectoryMount(PBin, PBin, FALSE)>>,
      <<"mount", DirectoryMount(PWork, PWork, TRUE)>>,
      <<"mount", DirectoryMount(PWork, RootPath, TRUE)>>,
      <<"mount", DirectoryMount(PWork, PRel, FALSE)>>,
      <<"syscall_filter", SyscallFilter(Allow, << <<"getuid", Kill>> >>)>>,
      <<"syscall_filter", SyscallFilter(Allow, << <<"fork", Kill>>, <<"nosuchcall", Kill>> >>)>> }

\* The setters, with a uid() that sets the group as well.
ApplySetter_UidSetsGid(c, call) ==
    LET f == call[1]
        v == call[2]
    IN CASE f = "time_limit" -> [c EXCEPT !.time_limit = Some(v)]
         [] f = "memory_limit" -> [c EXCEPT !.memory_limit = Some(v)]
         [] f = "stack_limit" -> [c EXCEPT !.stack_limit = Some(v)]
         [] f = "stdin" -> [c EXCEPT !.stdin = Some(v)]
         [] f = "stdout" -> [c EXCEPT !.stdout = Some(v)]
         [] f = "stderr" -> [c EXCEPT !.stderr = Some(v)]
         [] f = "executable" -> [c EXCEPT !.executable = v]
         [] f = "working_directory" -> [c EXCEPT !.working_directory = v]
         [] f = "arg" -> [c EXCEPT !.args = Append(@, v)]
         [] f = "env" -> [c EXCEPT !.env = Append(@, v)]
         [] f = "mount" -> [c EXCEPT !.mount_paths = Append(@, v)]
         [] f = "syscall_filter" -> [c EXCEPT !.syscall_filter = Some(v)]
         [] f = "mount_tmpfs" -> [c EXCEPT !.mount_tmpfs = v]
         [] f = "wall_time_limit" -> [c EXCEPT !.wall_time_limit = Some(v)]
         [] f = "run_on_core" -> [c EXCEPT !.cpu_core = Some(v)]
         [] f = "uid" -> [c EXCEPT !.uid = v, !.gid = v]
         [] f = "gid" -> [c EXCEPT !.gid = v]
         [] f = "mount_proc" -> [c EXCEPT !.mount_proc = v]

\* The setters: each takes &mut self and assigns or pushes one field.
ApplySetter(c, call) ==
    LET f == call[1]
        v == call[2]
    IN CASE f = "time_limit" -> [c EXCEPT !.time_limit = Some(v)]
         [] f = "memory_limit" -> [c EXCEPT !.memory_limit = Some(v)]
         [] f = "stack_limit" -> [c EXCEPT !.stack_limit = Some(v)]
         [] f = "stdin" -> [c EXCEPT !.stdin = Some(v)]
         [] f = "stdout" -> [c EXCEPT !.stdout = Some(v)]
         [] f = "stderr" -> [c EXCEPT !.stderr = Some(v)]
         [] f = "executable" -> [c EXCEPT !.executable = v]
         [] f = "working_directory" -> [c EXCEPT !.working_directory = v]
         [] f = "arg" -> [c EXCEPT !.args = Append(@, v)]
         [] f = "env" -> [c EXCEPT !.env = Append(@, v)]
         [] f = "mount" -> [c EXCEPT !.mount_paths = Append(@, v)]
         [] f = "syscall_filter" -> [c EXCEPT !.syscall_filter = Some(v)]
         [] f = "mount_tmpfs" -> [c EXCEPT !.mount_tmpfs = v]
         [] f = "wall_time_limit" -> [c EXCEPT !.wall_time_limit = Some(v)]
         [] f = "run_on_core" -> [c EXCEPT !.cpu_core = Some(v)]
         [] f = "uid" -> [c EXCEPT !.uid = v]
         [] f = "gid" -> [c EXCEPT !.gid = v]
         [] f = "mount_proc" -> [c EXCEPT !.mount_proc = v]

RECURSIVE ApplySetters(_, _)
ApplySetters(c, calls) ==
    IF calls = <<>> THEN c
    ELSE ApplySetters(ApplySetter(c, Head(calls)), Tail(calls))

\* Every sequence of at most n setter calls.
RECURSIVE SetterSeqs(_)
SetterSeqs(n) ==
    IF n = 0 THEN {<<>>}
    ELSE LET shorter == SetterSeqs(n - 1)
         IN shorter \cup {Append(s, call) : s \in shorter, call \in SetterCalls}

\* The same for the calls of a given set.
RECURSIVE SetterSeqsOf(_, _)
SetterSeqsOf(calls, n) ==
    IF n = 0 THEN {<<>>}
    ELSE LET shorter == SetterSeqsOf(calls, n - 1)
         IN shorter \cup {Append(s, call) : s \in shorter, call \in calls}

\* The configurations a caller builds: default() followed by setter calls.
Configurations == {ApplySetters(DefaultConfiguration, s) : s \in SetterSeqs(MaxSetters)}

\* Configurations for the sandbox filesystem: a few options, then mount
\* entries with distinct, equal, nested and invalid targets.
MaxMounts == 2

FsOptionCalls ==
    { <<>>,
      << <<"wall_time_limit", 1>> >>,
      << <<"mount_tmpfs", TRUE>> >>,
      << <<"mount_tmpfs", TRUE>>, <<"mount_proc", TRUE>>, <<"wall_time_limit", 1>> >> }

FsMountCalls ==
    { <<"mount", DirectoryMount(PBin, PBin, FALSE)>>,
      <<"mount", DirectoryMount(PWork, PWork, TRUE)>>,
      <<"mount", DirectoryMount(PBin, PWork, FALSE)>>,
      <<"mount", DirectoryMount(PBin, PWorkSub, TRUE)>>,
      <<"mount", DirectoryMount(PWork, PTmp, FALSE)>>,
      <<"mount", DirectoryMount(PWork, RootPath, TRUE)>> }

FsConfigurations ==
    { ApplySetters(ApplySetters(DefaultConfiguration, o), m) :
        o \in FsOptionCalls, m \in SetterSeqsOf(FsMountCalls, MaxMounts) }

\* Configurations for the executed command and the identity in the sandbox:
\* /bin is mounted so that the executable exists.
MaxExecSetters == 2

ExecSetterCalls ==
    { <<"arg", ArgC>>, <<"arg", ArgX>>, <<"arg", ArgNul>>,
      <<"env", EnvB2>>, <<"env", EnvA1>>, <<"env", EnvA3>>,
      <<"uid", 1000>>, <<"gid", 1000>> }

ExecBaseCalls ==
    << <<"mount", DirectoryMount(PBin, PBin, FALSE)>>, <<"wall_time_limit", 1>> >>

ExecConfigurations ==
    { ApplySetters(ApplySetters(DefaultConfiguration, ExecBaseCalls), s) :
        s \in SetterSeqsOf(ExecSetterCalls, MaxExecSetters) }

\* Configurations for the resource limits, and the hard limits of the
\* calling process they meet.
MaxLimitSetters == 2

LimitSetterCalls ==
    { <<"memory_limit", 1>>, <<"memory_limit", 3>>,
      <<"time_limit", 2>>, <<"stack_limit", 2>> }

LimitConfigurations ==
    { ApplySetters(ApplySetters(DefaultConfiguration, ExecBaseCalls), s) :
        s \in SetterSeqsOf(LimitSetterCalls, MaxLimitSetters) }

HostLimits == { [r \in Resources |-> m] : m \in {1, 2, RLIM_INFINITY} }

\* The environments of the calling process.
HostEnvironments == { <<>>, << EnvP >>, << EnvA1, EnvP >> }

(***************************************************************************)
(* State.                                                                  *)
(***************************************************************************)
VARIABLES
    config,         \* the SandboxConfiguration given to run()
    progHalts,      \* whether the executed user program terminates on its own
    host,           \* the calling process: its environment and its hard limits
    callerPc,       \* the caller of run() and wait()
    runResult,      \* what run() returned: "none", "Ok", "Err"
    waitOutcome,    \* what wait() did: <<"none">>, <<"Ok", r>>, <<"Err">>, <<"panic">>
    watcherPc,      \* the "Sandbox watcher" thread
    tempdirCreated, \* the temporary sandbox root exists
    status,         \* the watcher's local `status`, written by wait4
    result,         \* the ExitStatus of the watcher's SandboxExecutionResult
    killed,         \* the shared AtomicBool
    killedRead,     \* the watcher has loaded `killed`
    wallPc,         \* the "Wall time watcher" thread
    sigkillSent,    \* the wall time watcher's kill(child_pid, SIGKILL) succeeded
    proc,           \* the child process in the kernel: none, alive, zombie, reaped
    procStatus,     \* the wait status of the terminated child
    childPc,        \* the child's position in its setup
    klog,           \* the system calls and file operations of the child, in order
    fnIn,           \* input of the pure function under check
    fnOut,          \* its output
    platform,       \* the target_os of the build: selects SandboxImplementation
    memPc,          \* the "TABox memory watcher" thread of the degraded backend
    sigsegvSent,    \* the memory watcher's kill(child_pid, SIGSEGV) ended the child
    cliPc,          \* the position of main() of the tabox binary
    cliArgs,        \* the parsed command line (Args)
    cliExit,        \* the exit code of the tabox process, once it has ended
    cliStderr       \* the result records main() printed

vars == << config, progHalts, host, callerPc, runResult, waitOutcome, watcherPc,
           tempdirCreated, status, result, killed, killedRead, wallPc,
           sigkillSent, proc, procStatus, childPc, klog, fnIn, fnOut,
           platform, memPc, sigsegvSent, cliPc, cliArgs, cliExit, cliStderr >>

callerVars == << callerPc, runResult, waitOutcome >>
watcherVars == << watcherPc, tempdirCreated, status, result, killedRead >>
wallVars == << wallPc, killed, sigkillSent >>
procVars == << proc, procStatus, childPc, klog >>
fnVars == << fnIn, fnOut >>
envVars == << config, progHalts, host >>
macVars == << memPc, sigsegvSent >>
cliVars == << cliPc, cliArgs, cliExit, cliStderr >>
outerVars == << platform, macVars, cliVars >>

IdleState ==
    /\ callerPc = "run"
    /\ runResult = "none"
    /\ waitOutcome = <<"none">>
    /\ watcherPc = "none"
    /\ tempdirCreated = FALSE
    /\ status = 0
    /\ result = None
    /\ killed = FALSE
    /\ killedRead = FALSE
    /\ wallPc = "none"
    /\ sigkillSent = FALSE
    /\ proc = "none"
    /\ procStatus = 0
    /\ childPc = "none"
    /\ klog = <<>>
    /\ memPc = "none"
    /\ sigsegvSent = FALSE
    /\ cliPc = "none"
    /\ cliArgs = <<>>
    /\ cliExit = None
    /\ cliStderr = <<>>

\* The calling process of the runs: an environment of its own and no
\* finite hard limit on any resource.
DefaultHost ==
    [ env |-> << EnvP >>,
      rlim_max |-> [r \in Resources |-> RLIM_INFINITY] ]

Init ==
    /\ config \in Configurations
    /\ progHalts = FALSE
    /\ host = DefaultHost
    /\ platform = "linux"
    /\ IdleState
    /\ fnIn = <<>>
    /\ fnOut = <<>>

(***************************************************************************)
(* Wait status words (the W* macros of libc) and their translation.        *)
(***************************************************************************)
ExitedStatus(code) == code * 256
SignaledStatus(sig) == sig
StoppedStatus(sig) == sig * 256 + 127

WIFEXITED(s) == s % 128 = 0
WEXITSTATUS(s) == (s \div 256) % 256
WIFSIGNALED(s) == (s % 128) # 0 /\ (s % 128) # 127
WTERMSIG(s) == s % 128

\* A translation that also reports a SIGKILL of the wait status as Killed.
TranslateStatus_SigkillIsKilled(k, s) ==
    IF k \/ (~WIFEXITED(s) /\ WTERMSIG(s) = SIGKILL) THEN Killed
    ELSE IF WIFEXITED(s) THEN ExitCode(WEXITSTATUS(s))
    ELSE Signal(WTERMSIG(s))

\* watcher(): the status of the SandboxExecutionResult.
TranslateStatus(k, s) ==
    IF k THEN Killed
    ELSE IF WIFEXITED(s) THEN ExitCode(WEXITSTATUS(s))
    ELSE Signal(WTERMSIG(s))

(***************************************************************************)
(* The sandbox filesystem (setup_filesystem, mount, mount_dir, make_dev).  *)
(* An operation of the child is a tuple whose first element is its name;   *)
(* paths are given inside the sandbox root.                                *)
(***************************************************************************)
OpMkdir(target) == <<"create_dir_all", target>>
OpMountSys(source, target, fstype, flags, data) ==
    <<"mount", source, target, fstype, flags, data>>
OpPanic(what) == <<"panic", what>>

\* mount(): create the target, then call mount(2).
MountOps(source, target, fstype, flags, data) ==
    << OpMkdir(target), OpMountSys(source, target, fstype, flags, data) >>

\* make_dev(): mknod of a character device.
MakeDevOps(path, major, minor) == << <<"mknod", path, major, minor>> >>

\* mount_dir() without the read-only remount.
MountDirOps_AlwaysWritable(dir) ==
    IF dir.target = RootPath THEN << OpPanic("assert_ne target /") >>
    ELSE IF Head(dir.target) # "/" THEN << OpPanic("strip_prefix") >>
    ELSE MountOps(dir.source, dir.target, "", {"MS_BIND", "MS_REC"}, "")

\* mount_dir(): the bind mount of one configured directory.
MountDirOps(dir) ==
    IF dir.target = RootPath THEN << OpPanic("assert_ne target /") >>
    ELSE IF Head(dir.target) # "/" THEN << OpPanic("strip_prefix") >>
    ELSE MountOps(dir.source, dir.target, "", {"MS_BIND", "MS_REC"}, "")
         \o (IF dir.writable THEN <<>>
             ELSE MountOps("", dir.target, "", {"MS_REMOUNT", "MS_RDONLY", "MS_BIND"}, ""))

RECURSIVE MountPathsOps(_)
MountPathsOps(dirs) ==
    IF dirs = <<>> THEN <<>>
    ELSE LET ops == MountDirOps(Head(dirs))
         IN IF ops[Len(ops)][1] = "panic" THEN ops
            ELSE ops \o MountPathsOps(Tail(dirs))

PDev == <<"/", "dev">>

\* setup_filesystem() without the final remount of the root.
SetupFilesystemOps_NoRemount(c) ==
    MountOps("tmpfs", RootPath, "tmpfs", {}, "size=256M")
        \o << OpMkdir(PDev) >>
        \o MakeDevOps(Append(PDev, "null"), 1, 3)
        \o MakeDevOps(Append(PDev, "zero"), 1, 5)
        \o MakeDevOps(Append(PDev, "random"), 1, 8)
        \o MakeDevOps(Append(PDev, "urandom"), 1, 9)
        \o (IF c.mount_tmpfs
            THEN MountOps("tmpfs", PTmp, "tmpfs", {}, "size=256M")
                 \o MountOps("tmpfs", PDevShm, "tmpfs", {}, "size=256M")
            ELSE <<>>)
        \o MountPathsOps(c.mount_paths)

\* setup_filesystem(): the operations it performs when none of them fails.
SetupFilesystemOps(c) ==
    LET head == MountOps("tmpfs", RootPath, "tmpfs", {}, "size=256M")
                \o << OpMkdir(PDev) >>
                \o MakeDevOps(Append(PDev, "null"), 1, 3)
                \o MakeDevOps(Append(PDev, "zero"), 1, 5)
                \o MakeDevOps(Append(PDev, "random"), 1, 8)
                \o MakeDevOps(Append(PDev, "urandom"), 1, 9)
                \o (IF c.mount_tmpfs
                    THEN MountOps("tmpfs", PTmp, "tmpfs", {}, "size=256M")
                         \o MountOps("tmpfs", PDevShm, "tmpfs", {}, "size=256M")
                    ELSE <<>>)
        binds == MountPathsOps(c.mount_paths)
    IN IF binds # <<>> /\ binds[Len(binds)][1] = "panic"
       THEN head \o binds
       ELSE head \o binds
            \o MountOps("tmpfs", RootPath, "tmpfs", {"MS_REMOUNT", "MS_RDONLY"}, "")

(***************************************************************************)
(* What the child sees after chroot.                                       *)
(***************************************************************************)
MaxOf(S) == CHOOSE x \in S : \A y \in S : y <= x

\* The mounts made by a log of operations, in order (index 1 is the root tmpfs).
MountTable(log) ==
    SelectSeq(log, LAMBDA op : op[1] = "mount" /\ "MS_REMOUNT" \notin op[5])

\* The mount that governs `path`: walk down the path, entering every mount
\* that was attached on top of the current one.
RECURSIVE GoverningMount(_, _, _, _)
GoverningMount(mt, path, k, cur) ==
    IF k > Len(path) THEN cur
    ELSE LET cands == {i \in 1..Len(mt) : i > cur /\ mt[i][3] = SubSeq(path, 1, k)}
         IN GoverningMount(mt, path, k + 1, IF cands = {} THEN cur ELSE MaxOf(cands))

\* Directories and nodes created in the sandbox skeleton.
CreatedPaths(log) ==
    UNION { {SubSeq(log[i][2], 1, k) : k \in 1..Len(log[i][2])} :
            i \in {j \in 1..Len(log) : log[j][1] \in {"create_dir_all", "mknod"}} }

\* Path::exists() inside the sandbox root.
SandboxExists(log, path) ==
    LET mt == MountTable(log)
        g == GoverningMount(mt, path, 1, 0)
    IN IF g = 0 THEN FALSE
       ELSE IF "MS_BIND" \in mt[g][5]
            THEN (mt[g][2] \o SubSeq(path, Len(mt[g][3]) + 1, Len(path))) \in HostPaths
            ELSE path \in CreatedPaths(log)

\* The mount a remount (operation j of the log) acts on: the one on top at
\* its target when it is made.
RemountTarget(log, j) ==
    GoverningMount(MountTable(SubSeq(log, 1, j - 1)), log[j][3], 1, 0)

\* The filesystem instance behind a mount: every mount of a tmpfs makes a
\* new instance, a bind mount shows the host's; 0 is the host itself.
Superblock(mt, g) ==
    IF g = 0 \/ "MS_BIND" \in mt[g][5] THEN <<"host">> ELSE <<"tmpfs", g>>

\* Whether files can be created in the existing directory d: neither the
\* mount that governs d (MS_REMOUNT | MS_BIND | MS_RDONLY) nor its filesystem
\* instance (MS_REMOUNT | MS_RDONLY) was made read-only.
DirWritable(log, d) ==
    LET mt == MountTable(log)
        g == GoverningMount(mt, d, 1, 0)
    IN ~ \E j \in 1..Len(log) :
            /\ log[j][1] = "mount"
            /\ {"MS_REMOUNT", "MS_RDONLY"} \subseteq log[j][5]
            /\ IF "MS_BIND" \in log[j][5]
               THEN RemountTarget(log, j) = g
               ELSE Superblock(mt, RemountTarget(log, j)) = Superblock(mt, g)

\* fopen(path, "w") of a new file by the user program.
FileCreatable(log, path) == DirWritable(log, SubSeq(path, 1, Len(path) - 1))

\* fs::create_dir_all(path): every missing directory of the path has to be
\* created in a writable directory.
RECURSIVE MkdirAllOk(_, _)
MkdirAllOk(log, path) ==
    IF Len(path) <= 1 \/ SandboxExists(log, path) \/ path \in CreatedPaths(log) THEN TRUE
    ELSE /\ MkdirAllOk(log, SubSeq(path, 1, Len(path) - 1))
         /\ DirWritable(log, SubSeq(path, 1, Len(path) - 1))

(***************************************************************************)
(* The steps of the child between clone and execve.  A step that fails is  *)
(* logged as <<"failed", op>>.                                             *)
(***************************************************************************)
OpFailed(op) == <<"failed", op>>

Parent(path) == SubSeq(path, 1, Len(path) - 1)

\* The ID the map written to /proc/self/<file> maps the parent's ID to.
MappedId(log, file) ==
    LET idx == {i \in 1..Len(log) : log[i][1] = "write" /\ log[i][2] = file}
    IN log[MaxOf(idx)][3][1]

\* The hard limit of a resource in the child: the one it installed last,
\* or the one inherited from the calling process.
CurrentHardLimit(log, resource) ==
    LET idx == {i \in 1..Len(log) : log[i][1] = "setrlimit" /\ log[i][2] = resource}
    IN IF idx = {} THEN host.rlim_max[resource] ELSE log[MaxOf(idx)][4]

\* Whether the operation can succeed in the state the log describes; the
\* child has no capability to raise a hard limit.
CanSucceed(op, log) ==
    CASE op[1] = "panic" -> FALSE
      [] op[1] = "open" -> op[2] \in HostPaths
      [] op[1] = "create" -> Parent(op[2]) \in HostPaths
      [] op[1] = "chdir" -> SandboxExists(log, op[2])
      [] op[1] = "create_dir_all" -> MkdirAllOk(log, op[2])
      [] op[1] = "setrlimit" ->
            op[3] <= op[4] /\ op[4] <= CurrentHardLimit(log, op[2])
      [] op[1] = "assert_eq" ->
            CASE op[2] = "getuid" -> MappedId(log, "/proc/self/uid_map") = op[3]
              [] op[2] = "getgid" -> MappedId(log, "/proc/self/gid_map") = op[3]
              [] OTHER -> TRUE
      [] op[1] = "assert_exists" -> SandboxExists(log, op[2])
      [] OTHER -> TRUE

\* Whether the operating system may refuse the operation.
MayFail(op) == op[1] \notin {"assert_exists", "assert_eq", "dup2", "setrlimit"}

\* The numbers n such that the first n operations of the plan succeed and
\* the next one, if any, fails.
RECURSIVE Feasible(_, _, _)
Feasible(plan, log, n) ==
    IF n = 0 THEN TRUE
    ELSE /\ Feasible(plan, log, n - 1)
         /\ CanSucceed(plan[n], log \o SubSeq(plan, 1, n - 1))

PlanOutcomes(plan, log) ==
    { n \in 0..Len(plan) :
        /\ Feasible(plan, log, n)
        /\ n < Len(plan) =>
              \/ MayFail(plan[n + 1])
              \/ ~CanSucceed(plan[n + 1], log \o SubSeq(plan, 1, n)) }

LogAfter(plan, log, n) ==
    log \o SubSeq(plan, 1, n)
        \o (IF n < Len(plan) THEN << OpFailed(plan[n + 1]) >> ELSE <<>>)

\* watcher(), child branch: the identity maps and the orphan guard.
ChildPreludeOps ==
    << <<"write", "/proc/self/setgroups", "deny">>,
       <<"write", "/proc/self/uid_map", <<0, "uid", 1>> >>,
       <<"write", "/proc/self/gid_map", <<0, "gid", 1>> >>,
       <<"prctl", "PR_SET_PDEATHSIG", SIGKILL>> >>

\* child(): the assertions on the identity the clone and the maps gave.
ChildAssertOps ==
    << <<"assert_eq", "getpid", 1>>,
       <<"assert_eq", "getuid", 0>>,
       <<"assert_eq", "getgid", 0>> >>

\* set_resource_limit(): rlim_cur = rlim_max = limit.
SetResourceLimitOp(resource, limit) == <<"setrlimit", resource, limit, limit>>

\* setup_resource_limits() without the limit on core dumps.
SetupResourceLimitsOps_NoCore(c) ==
    (IF IsSome(c.memory_limit)
     THEN << SetResourceLimitOp("RLIMIT_AS", Unwrap(c.memory_limit)) >> ELSE <<>>)
    \o (IF IsSome(c.time_limit)
        THEN << SetResourceLimitOp("RLIMIT_CPU", Unwrap(c.time_limit)) >> ELSE <<>>)

\* setup_resource_limits().
SetupResourceLimitsOps(c) ==
    (IF IsSome(c.memory_limit)
     THEN << SetResourceLimitOp("RLIMIT_AS", Unwrap(c.memory_limit)) >> ELSE <<>>)
    \o (IF IsSome(c.time_limit)
        THEN << SetResourceLimitOp("RLIMIT_CPU", Unwrap(c.time_limit)) >> ELSE <<>>)
    \o << SetResourceLimitOp("RLIMIT_CORE", 0) >>

\* setup_io_redirection().
SetupIoRedirectionOps(c) ==
    (IF IsSome(c.stdin)
     THEN << <<"open", Unwrap(c.stdin)>>, <<"dup2", "stdin", 0>> >> ELSE <<>>)
    \o (IF IsSome(c.stdout)
        THEN << <<"create", Unwrap(c.stdout)>>, <<"dup2", "stdout", 1>> >> ELSE <<>>)
    \o (IF IsSome(c.stderr)
        THEN << <<"create", Unwrap(c.stderr)>>, <<"dup2", "stderr", 2>> >> ELSE <<>>)

\* setup_thread_affinity().
SetupThreadAffinityOps(c) ==
    IF IsSome(c.cpu_core)
    THEN << <<"sched_setaffinity", Unwrap(c.cpu_core)>> >> ELSE <<>>

\* enter_chroot() without the chdir to the working directory.
EnterChrootOps_NoChdir(c) == << <<"chroot", "sandbox_path">> >>

\* enter_chroot().
EnterChrootOps(c) == << <<"chroot", "sandbox_path">>, <<"chdir", c.working_directory>> >>

\* CString::new(..).unwrap() panics on a string with a zero byte.
HasNul(str) == \E i \in 1..Len(str) : str[i] = "NUL"

\* exec_child(): the args array with the arguments in reverse order.
RECURSIVE PushArgs_Front(_, _)
PushArgs_Front(args, rest) ==
    IF rest = <<>> THEN args
    ELSE PushArgs_Front(<< Head(args) >> \o << Head(rest) >> \o Tail(args), Tail(rest))

\* exec_child(): the args array, the executable first and then every arg.
RECURSIVE PushArgs(_, _)
PushArgs(args, rest) ==
    IF rest = <<>> THEN args
    ELSE PushArgs(Append(args, Head(rest)), Tail(rest))

BuildArgs(c) == PushArgs(<< c.executable >>, c.args)

\* format!("{}={}", variable, value)
FormatEnv(variable, value) == variable \o <<"=">> \o value

\* exec_child(): the env array with the parent's environment put first.
BuildEnv_Inherit(c) ==
    [i \in 1..Len(host.env) |-> FormatEnv(host.env[i][1], host.env[i][2])]
        \o [i \in 1..Len(c.env) |-> FormatEnv(c.env[i][1], c.env[i][2])]

\* exec_child(): the env array, one entry for every configured pair.
BuildEnv(c) ==
    [i \in 1..Len(c.env) |-> FormatEnv(c.env[i][1], c.env[i][2])]

\* exec_child(): the arrays are built, then execve is called with them.
ExecChildOps(c) ==
    << <<"assert_exists", c.executable>> >>
    \o (IF \E i \in 1..Len(c.args) : HasNul(c.args[i])
        THEN << OpPanic("CString::new(arg)") >>
        ELSE IF \E i \in 1..Len(c.env) : HasNul(FormatEnv(c.env[i][1], c.env[i][2]))
        THEN << OpPanic("CString::new(env)") >>
        ELSE << <<"execve", c.executable, BuildArgs(c), BuildEnv(c)>> >>)

\* The message of the child's panic for a failed operation: the assert! of
\* exec_child carries the hint that a mount may be missing; check_syscall!
\* prints the text of the call, its return code and errno.
PanicMessage(op) ==
    IF op[1] = "assert_exists"
    THEN [text |-> "Executable doesn't exist inside the sandbox chroot", hint |-> TRUE]
    ELSE [text |-> op[1], hint |-> FALSE]

(***************************************************************************)
(* The seccomp filter (SeccompFilter, setup_syscall_filter).               *)
(***************************************************************************)
\* SyscallFilterAction::to_seccomp_param().
ToSeccompParam(action) ==
    CASE action = Allow -> <<"SCMP_ACT_ALLOW">>
      [] action = Kill -> <<"SCMP_ACT_KILL">>
      [] OTHER -> <<"SCMP_ACT_ERRNO", action[2]>>

\* SeccompFilter::new(): Ok with a context, or Err when seccomp_init gives null.
SeccompNew(default_action, initOk) ==
    IF initOk THEN << <<"seccomp_init", ToSeccompParam(default_action)>> >>
    ELSE << OpFailed(<<"seccomp_init", ToSeccompParam(default_action)>>) >>

\* SeccompFilter::filter(): Err for an unknown name or a refused rule.
SeccompFilterRule(name, action, addOk) ==
    IF name \notin KnownSyscalls
    THEN << OpFailed(<<"seccomp_syscall_resolve_name", name>>) >>
    ELSE IF ~addOk
    THEN << OpFailed(<<"seccomp_rule_add", name, ToSeccompParam(action)>>) >>
    ELSE << <<"seccomp_rule_add", name, ToSeccompParam(action)>> >>

\* SeccompFilter::load().
SeccompLoad(loadOk) ==
    IF loadOk THEN << <<"seccomp_load">> >> ELSE << OpFailed(<<"seccomp_load">>) >>

RECURSIVE SeccompRules(_, _, _)
SeccompRules(rules, i, failAt) ==
    IF i > Len(rules) THEN <<>>
    ELSE SeccompFilterRule(rules[i][1], rules[i][2], i # failAt)
         \o SeccompRules(rules, i + 1, failAt)

\* setup_syscall_filter(): the values returned by new, filter and load are
\* not inspected, so a failure of one of them stops nothing; without a
\* context (new failed) there is nothing to add rules to or to load.
SetupSyscallFilterOps(c, initOk, failAt, loadOk) ==
    IF ~IsSome(c.syscall_filter) THEN <<>>
    ELSE LET f == Unwrap(c.syscall_filter)
         IN SeccompNew(f.default_action, initOk)
            \o (IF initOk
                THEN SeccompRules(f.rules, 1, failAt) \o SeccompLoad(loadOk)
                ELSE <<>>)

(***************************************************************************)
(* Kernel state of the child, read off the log of its operations.          *)
(***************************************************************************)
Performed(log, name) == \E i \in 1..Len(log) : log[i][1] = name

\* A step of the setup has reported a failure.
SetupFailed(log) == \E i \in 1..Len(log) : log[i][1] \in {"failed", "panic"}

\* The limits (rlim_cur, rlim_max) installed for a resource, if any.
InstalledLimit(log, resource) ==
    LET idx == {i \in 1..Len(log) : log[i][1] = "setrlimit" /\ log[i][2] = resource}
    IN IF idx = {} THEN None ELSE Some(<<log[MaxOf(idx)][3], log[MaxOf(idx)][4]>>)

\* The seccomp filter loaded into the kernel, if any: the default action of
\* the context and the rules added to it.
LoadedFilter(log) ==
    IF ~Performed(log, "seccomp_load") THEN None
    ELSE LET init == SelectSeq(log, LAMBDA op : op[1] = "seccomp_init")
             adds == SelectSeq(log, LAMBDA op : op[1] = "seccomp_rule_add")
         IN Some([default_action |-> init[1][2],
                  rules |-> [i \in 1..Len(adds) |-> <<adds[i][2], adds[i][3]>>]])

\* The kernel filter the configuration asks for.
RequestedFilter(f) ==
    [default_action |-> ToSeccompParam(f.default_action),
     rules |-> [i \in 1..Len(f.rules) |-> <<f.rules[i][1], ToSeccompParam(f.rules[i][2])>>]]

(***************************************************************************)
(* The caller: LinuxSandbox::run and LinuxSandbox::wait.                   *)
(***************************************************************************)
\* run(): spawn the watcher thread and return the handle at once; `?` turns
\* a failure to spawn the thread into Err.
Run ==
    /\ platform = "linux"
    /\ callerPc = "run"
    /\ \E spawned \in BOOLEAN :
          IF spawned
          THEN /\ watcherPc' = "tempdir"
               /\ runResult' = "Ok"
               /\ callerPc' = "wait"
          ELSE /\ watcherPc' = watcherPc
               /\ runResult' = "Err"
               /\ callerPc' = "done"
    /\ UNCHANGED << waitOutcome, tempdirCreated, status, result, killedRead >>
    /\ UNCHANGED << wallVars, procVars, fnVars, outerVars, envVars >>

\* What wait() does once the joined watcher thread has ended.
JoinOutcome(pc, r) == IF pc = "panicked" THEN <<"panic">> ELSE <<"Ok", Unwrap(r)>>

\* Whether join() can return: the watcher thread has ended.
Joinable(pc) == pc \in {"returned", "panicked"}

\* wait(): Ok(self.child_thread.join().unwrap()).
Wait ==
    /\ callerPc = "wait"
    /\ Joinable(watcherPc)
    /\ waitOutcome' = JoinOutcome(watcherPc, result)
    /\ callerPc' = "done"
    /\ UNCHANGED << runResult, watcherVars, wallVars, procVars, fnVars, outerVars, envVars >>

(***************************************************************************)
(* The watcher thread: watcher().                                          *)
(***************************************************************************)
\* The death of the watcher thread reaches a child that has set
\* PR_SET_PDEATHSIG as a SIGKILL.
WatcherPanics ==
    /\ watcherPc' = "panicked"
    /\ IF proc = "alive" /\ Performed(klog, "prctl")
       THEN /\ proc' = "zombie"
            /\ procStatus' = SignaledStatus(SIGKILL)
            /\ childPc' = "dead"
       ELSE UNCHANGED << proc, procStatus, childPc >>

\* TempDir::new("tabox").expect(..)
WatcherTempDir ==
    /\ watcherPc = "tempdir"
    /\ \E created \in BOOLEAN :
          IF created
          THEN /\ tempdirCreated' = TRUE
               /\ watcherPc' = "clone"
               /\ UNCHANGED << proc, procStatus, childPc >>
          ELSE /\ WatcherPanics
               /\ UNCHANGED tempdirCreated
    /\ UNCHANGED << status, result, killedRead, klog >>
    /\ UNCHANGED << callerVars, wallVars, fnVars, outerVars, envVars >>

\* check_syscall!(syscall(SYS_clone, ..)): the child starts in the child
\* branch of watcher(); the parent goes on with a fresh `killed` flag.
WatcherClone ==
    /\ watcherPc = "clone"
    /\ \E cloned \in BOOLEAN :
          IF cloned
          THEN /\ proc' = "alive"
               /\ childPc' = "prelude"
               /\ procStatus' = procStatus
               /\ watcherPc' = "spawn_wall"
          ELSE WatcherPanics
    /\ UNCHANGED << tempdirCreated, status, result, killedRead, klog >>
    /\ UNCHANGED << callerVars, wallVars, fnVars, outerVars, envVars >>

\* The wall time watcher thread spawned whatever the configuration.
WatcherSpawnWall_Always ==
    /\ watcherPc = "spawn_wall"
    /\ \E spawned \in BOOLEAN :
          IF spawned
          THEN /\ wallPc' = "sleep"
               /\ watcherPc' = "wait4"
               /\ UNCHANGED << proc, procStatus, childPc >>
          ELSE /\ WatcherPanics
               /\ UNCHANGED wallPc
    /\ UNCHANGED << tempdirCreated, status, result, killedRead, klog >>
    /\ UNCHANGED << killed, sigkillSent, callerVars, fnVars, outerVars, envVars >>

\* if let Some(limit) = config.wall_time_limit { thread::Builder.spawn(..).expect(..) }
WatcherSpawnWall ==
    /\ watcherPc = "spawn_wall"
    /\ IF IsSome(config.wall_time_limit)
       THEN \E spawned \in BOOLEAN :
               IF spawned
               THEN /\ wallPc' = "sleep"
                    /\ watcherPc' = "wait4"
                    /\ UNCHANGED << proc, procStatus, childPc >>
               ELSE /\ WatcherPanics
                    /\ UNCHANGED wallPc
       ELSE /\ watcherPc' = "wait4"
            /\ UNCHANGED << wallPc, proc, procStatus, childPc >>
    /\ UNCHANGED << tempdirCreated, status, result, killedRead, klog >>
    /\ UNCHANGED << killed, sigkillSent, callerVars, fnVars, outerVars, envVars >>

\* Whether wait4(child_pid, &mut status, 0, ..) can return: with options 0
\* it blocks until the child has terminated.
Wait4Returns_NoHang(p) == p \in {"alive", "zombie"}

Wait4Returns(p) == p = "zombie"

\* check_syscall!(wait4(..)): reap the child and take its wait status.
WatcherWait4 ==
    /\ watcherPc = "wait4"
    /\ Wait4Returns(proc)
    /\ IF proc = "zombie"
       THEN /\ status' = procStatus
            /\ proc' = "reaped"
       ELSE UNCHANGED << status, proc >>
    /\ watcherPc' = "translate"
    /\ UNCHANGED << tempdirCreated, result, killedRead, procStatus, childPc, klog >>
    /\ UNCHANGED << callerVars, wallVars, fnVars, outerVars, envVars >>

\* killed.load(), the SandboxExecutionResult, return.
WatcherResult ==
    /\ watcherPc = "translate"
    /\ killedRead' = TRUE
    /\ result' = Some(TranslateStatus(killed, status))
    /\ watcherPc' = "returned"
    /\ UNCHANGED << tempdirCreated, status >>
    /\ UNCHANGED << callerVars, wallVars, procVars, fnVars, outerVars, envVars >>

(***************************************************************************)
(* The wall time watcher thread.                                           *)
(***************************************************************************)
\* thread::sleep(limit); check_syscall!(kill(child_pid, SIGKILL)): the kill
\* ends a living child and changes nothing for a zombie.  Once the child has
\* been reaped its PID is free: the kill fails (ESRCH, so the thread panics)
\* or, when the kernel has given the PID to another process, succeeds there.
WallKill_NoSignal ==
    /\ wallPc = "sleep"
    /\ wallPc' = "store"
    /\ UNCHANGED << killed, sigkillSent, procVars, callerVars, watcherVars, fnVars, outerVars, envVars >>

WallKill ==
    /\ wallPc = "sleep"
    /\ IF proc \in {"alive", "zombie"}
       THEN /\ wallPc' = "store"
            /\ sigkillSent' = TRUE
            /\ IF proc = "alive"
               THEN /\ proc' = "zombie"
                    /\ procStatus' = SignaledStatus(SIGKILL)
                    /\ childPc' = "dead"
               ELSE UNCHANGED << proc, procStatus, childPc >>
       ELSE /\ \E reused \in BOOLEAN :
                  IF reused
                  THEN wallPc' = "store" /\ sigkillSent' = TRUE
                  ELSE wallPc' = "panicked" /\ UNCHANGED sigkillSent
            /\ UNCHANGED << proc, procStatus, childPc >>
    /\ UNCHANGED << killed, klog, callerVars, watcherVars, fnVars, outerVars, envVars >>

\* killed.store(true, Ordering::SeqCst)
WallStore ==
    /\ wallPc = "store"
    /\ killed' = TRUE
    /\ wallPc' = "done"
    /\ UNCHANGED << sigkillSent, callerVars, watcherVars, procVars, fnVars, outerVars, envVars >>

(***************************************************************************)
(* The child process: the child branch of watcher(), child() and the user  *)
(* program.  check_syscall!, unwrap, expect and assert! panic on failure.  *)
(***************************************************************************)
\* One function of the setup: its operations in order, until one fails.
ChildStep(from, to, plan) ==
    /\ childPc = from
    /\ proc = "alive"
    /\ \E n \in PlanOutcomes(plan, klog) :
          /\ klog' = LogAfter(plan, klog, n)
          /\ childPc' = IF n = Len(plan) THEN to ELSE "panicked"
    /\ UNCHANGED << proc, procStatus, progHalts, config, host >>
    /\ UNCHANGED << callerVars, watcherVars, wallVars, fnVars, outerVars >>

ChildPrelude == ChildStep("prelude", "setup_filesystem", ChildPreludeOps)

ChildSetupFilesystem ==
    ChildStep("setup_filesystem", "setup_resource_limits",
              ChildAssertOps \o SetupFilesystemOps(config))

ChildSetupResourceLimits ==
    ChildStep("setup_resource_limits", "setup_syscall_filter", SetupResourceLimitsOps(config))

\* The filter's failures are not looked at: the child goes on in every case.
ChildSetupSyscallFilter ==
    /\ childPc = "setup_syscall_filter"
    /\ proc = "alive"
    /\ \E initOk \in BOOLEAN, loadOk \in BOOLEAN :
       \E failAt \in 0..(IF IsSome(config.syscall_filter)
                         THEN Len(Unwrap(config.syscall_filter).rules) ELSE 0) :
          klog' = klog \o SetupSyscallFilterOps(config, initOk, failAt, loadOk)
    /\ childPc' = "setup_io_redirection"
    /\ UNCHANGED << proc, procStatus, progHalts, config, host >>
    /\ UNCHANGED << callerVars, watcherVars, wallVars, fnVars, outerVars >>

ChildSetupIoRedirection ==
    ChildStep("setup_io_redirection", "setup_thread_affinity", SetupIoRedirectionOps(config))

ChildSetupThreadAffinity ==
    ChildStep("setup_thread_affinity", "enter_chroot", SetupThreadAffinityOps(config))

ChildEnterChroot == ChildStep("enter_chroot", "exec_child", EnterChrootOps(config))

\* exec_child(): on success the user program runs in the child.
ChildExec ==
    /\ childPc = "exec_child"
    /\ proc = "alive"
    /\ LET plan == ExecChildOps(config)
       IN \E n \in PlanOutcomes(plan, klog) :
             /\ klog' = LogAfter(plan, klog, n)
             /\ IF n = Len(plan)
                THEN /\ childPc' = "running"
                     /\ progHalts' \in BOOLEAN
                ELSE /\ childPc' = "panicked"
                     /\ progHalts' = progHalts
    /\ UNCHANGED << proc, procStatus, config, host >>
    /\ UNCHANGED << callerVars, watcherVars, wallVars, fnVars, outerVars >>

\* The wait statuses a panic of the child's only thread ends the process
\* with: exit of the thread (status 0) or abort (SIGABRT).
PanicWaitStatuses == {ExitedStatus(0), SignaledStatus(6)}

ChildPanicExit ==
    /\ childPc = "panicked"
    /\ proc = "alive"
    /\ proc' = "zombie"
    /\ procStatus' \in PanicWaitStatuses
    /\ childPc' = "dead"
    /\ UNCHANGED << klog, callerVars, watcherVars, wallVars, fnVars, outerVars, envVars >>

\* The user program returns from main or calls exit.
ProgExit ==
    /\ childPc = "running"
    /\ proc = "alive"
    /\ progHalts
    /\ \E code \in 0..MaxExitCode :
          procStatus' = ExitedStatus(code)
    /\ proc' = "zombie"
    /\ childPc' = "dead"
    /\ UNCHANGED << klog, callerVars, watcherVars, wallVars, fnVars, outerVars, envVars >>

\* The kernel terminates the user program with a signal: a fault, a system
\* call the filter kills, the CPU time limit.
ProgSignal ==
    /\ childPc = "running"
    /\ proc = "alive"
    /\ progHalts
    /\ \E sig \in {SIGSEGV, SIGSYS, SIGKILL} :
          procStatus' = SignaledStatus(sig)
    /\ proc' = "zombie"
    /\ childPc' = "dead"
    /\ UNCHANGED << klog, callerVars, watcherVars, wallVars, fnVars, outerVars, envVars >>

(***************************************************************************)
(* Specifications.                                                         *)
(***************************************************************************)
Next ==
    \/ Run
    \/ Wait
    \/ WatcherTempDir
    \/ WatcherClone
    \/ WatcherSpawnWall
    \/ WatcherWait4
    \/ WatcherResult
    \/ WallKill
    \/ WallStore
    \/ ChildPrelude
    \/ ChildSetupFilesystem
    \/ ChildSetupResourceLimits
    \/ ChildSetupSyscallFilter
    \/ ChildSetupIoRedirection
    \/ ChildSetupThreadAffinity
    \/ ChildEnterChroot
    \/ ChildExec
    \/ ChildPanicExit
    \/ ProgExit
    \/ ProgSignal

Spec == Init /\ [][Next]_vars

\* The threads and the kernel are scheduled fairly, and the caller that
\* holds a handle waits on it.
Fairness ==
    /\ WF_vars(Wait)
    /\ WF_vars(WatcherWait4)
    /\ WF_vars(WatcherResult)
    /\ WF_vars(WallKill)
    /\ WF_vars(WallStore)

FairSpec == Init /\ [][Next]_vars /\ Fairness

(***************************************************************************)
(* The degraded backend's command (MacOSSandbox::run): std::process::Command *)
(* keeps the environment as a map ordered by name.                         *)
(***************************************************************************)
\* The order of the variable names of the model.
EnvNameOrder == << <<"A">>, <<"B">>, <<"P">> >>

EnvNames(pairs) == {pairs[i][1] : i \in 1..Len(pairs)}

\* The value the map holds for a name: the one inserted last.
LastValue(pairs, name) ==
    pairs[MaxOf({i \in 1..Len(pairs) : pairs[i][1] = name})][2]

\* The environment of the spawned child: the inherited variables unless
\* env_clear() was called, overlaid with the ones given to envs().
CommandEnvp(clear, parent, pairs) ==
    LET merged == (IF clear THEN <<>> ELSE parent) \o pairs
        present == SelectSeq(EnvNameOrder, LAMBDA n : n \in EnvNames(merged))
    IN [i \in 1..Len(present) |-> FormatEnv(present[i], LastValue(merged, present[i]))]

\* util::set_resource_limit(): getrlimit, then setrlimit of the requested
\* limit, or of the current hard limit when the request is not below it.
UtilSetResourceLimitOp(resource, limit, hard) ==
    <<"setrlimit", resource,
      IF limit < hard THEN limit ELSE hard,
      IF limit < hard THEN limit ELSE hard>>

\* The pre_exec closure of MacOSSandbox::run.
MacOSPreExecOps(c) ==
    << UtilSetResourceLimitOp("RLIMIT_CORE", 0, host.rlim_max["RLIMIT_CORE"]) >>
    \o (IF IsSome(c.memory_limit)
        THEN << UtilSetResourceLimitOp("RLIMIT_RSS", Unwrap(c.memory_limit),
                                       host.rlim_max["RLIMIT_RSS"]) >>
        ELSE <<>>)
    \o (IF IsSome(c.time_limit)
        THEN << UtilSetResourceLimitOp("RLIMIT_CPU", Unwrap(c.time_limit),
                                       host.rlim_max["RLIMIT_CPU"]) >>
        ELSE <<>>)

\* Command::new(executable).args(args).env_clear().envs(env) .. spawn()?:
\* a string with a zero byte makes spawn() fail.
MacOSCommand(c) ==
    IF \/ \E i \in 1..Len(c.args) : HasNul(c.args[i])
       \/ \E i \in 1..Len(c.env) : HasNul(FormatEnv(c.env[i][1], c.env[i][2]))
    THEN <<"Err">>
    ELSE <<"spawn", c.executable, << c.executable >> \o c.args,
           CommandEnvp(TRUE, host.env, c.env), MacOSPreExecOps(c)>>

\* MacOSSandbox::run up to spawn(): fnOut records what the child is
\* executed with.
MacOSRun ==
    /\ fnOut = <<>>
    /\ \E spawned \in BOOLEAN :
          fnOut' = IF spawned THEN MacOSCommand(config) ELSE <<"Err">>
    /\ UNCHANGED << fnIn, outerVars, callerVars, watcherVars, wallVars, procVars, envVars >>

\* The runs of the configurations for the executed command, on both backends.
ExecInit ==
    /\ config \in ExecConfigurations
    /\ progHalts = FALSE
    /\ host \in {[DefaultHost EXCEPT !.env = e] : e \in HostEnvironments}
    /\ platform = "linux"
    /\ IdleState
    /\ fnIn = <<>>
    /\ fnOut = <<>>

ExecNext == Next \/ MacOSRun

ExecSpec == ExecInit /\ [][ExecNext]_vars

\* The runs of a caller that builds the preset filter and gives it to the
\* configuration: config.syscall_filter(SyscallFilter::build(m, c)).
BuildInit ==
    /\ config = ApplySetters(DefaultConfiguration, ExecBaseCalls)
    /\ progHalts = FALSE
    /\ host = DefaultHost
    /\ platform = "linux"
    /\ IdleState
    /\ fnIn \in BOOLEAN \X BOOLEAN
    /\ fnOut = <<>>

BuildFilter ==
    /\ callerPc = "run"
    /\ fnOut = <<>>
    /\ fnOut' = << SyscallFilterBuild(fnIn[1], fnIn[2]) >>
    /\ config' = ApplySetter(config, <<"syscall_filter", SyscallFilterBuild(fnIn[1], fnIn[2])>>)
    /\ UNCHANGED << fnIn, outerVars, progHalts, host, callerVars, watcherVars, wallVars, procVars >>

BuildNext == BuildFilter \/ Next

BuildSpec == BuildInit /\ [][BuildNext]_vars

\* The runs of the configurations for the resource limits.
LimitInit ==
    /\ config \in LimitConfigurations
    /\ progHalts = FALSE
    /\ host \in {[DefaultHost EXCEPT !.rlim_max = h] : h \in HostLimits}
    /\ platform = "linux"
    /\ IdleState
    /\ fnIn = <<>>
    /\ fnOut = <<>>

LimitSpec == LimitInit /\ [][ExecNext]_vars

\* The runs of the configurations for the sandbox filesystem.
FsInit ==
    /\ config \in FsConfigurations
    /\ progHalts = FALSE
    /\ host = DefaultHost
    /\ platform = "linux"
    /\ IdleState
    /\ fnIn = <<>>
    /\ fnOut = <<>>

FsSpec == FsInit /\ [][Next]_vars

(***************************************************************************)
(* The status translation as a function of every (killed, wait status).    *)
(***************************************************************************)
RawStatuses ==
    {ExitedStatus(c) : c \in 0..MaxRawCode}
        \cup {SignaledStatus(g) : g \in 1..MaxRawCode}
        \cup {StoppedStatus(g) : g \in 1..MaxRawCode}

TranslateInit ==
    /\ config = DefaultConfiguration
    /\ progHalts = FALSE
    /\ host = DefaultHost
    /\ platform = "linux"
    /\ IdleState
    /\ fnIn \in BOOLEAN \X RawStatuses
    /\ fnOut = <<>>

TranslateApply ==
    /\ fnIn # <<>>
    /\ fnOut = <<>>
    /\ fnOut' = << TranslateStatus(fnIn[1], fnIn[2]) >>
    /\ UNCHANGED << fnIn, outerVars, callerVars, watcherVars, wallVars, procVars, envVars >>

TranslateSpec == TranslateInit /\ [][TranslateApply]_vars

(***************************************************************************)
(* A SIGINT or SIGTERM for the supervising process.  run() and watcher()   *)
(* install no handler and record no child PID, so the signal has its       *)
(* default disposition: the process ends with all its threads, and the     *)
(* end of the watcher thread reaches the child as WatcherPanics does.      *)
(***************************************************************************)
LiveWatcher(pc) == pc \in {"tempdir", "clone", "spawn_wall", "wait4", "translate"}

LiveWall(pc) == pc \in {"sleep", "store"}

SupervisorSignal ==
    /\ platform = "linux"
    /\ callerPc \in {"run", "wait"}
    /\ callerPc' = "interrupted"
    /\ watcherPc' = IF LiveWatcher(watcherPc) THEN "dead" ELSE watcherPc
    /\ wallPc' = IF LiveWall(wallPc) THEN "dead" ELSE wallPc
    /\ IF LiveWatcher(watcherPc) /\ proc = "alive" /\ Performed(klog, "prctl")
       THEN /\ proc' = "zombie"
            /\ procStatus' = SignaledStatus(SIGKILL)
            /\ childPc' = "dead"
       ELSE UNCHANGED << proc, procStatus, childPc >>
    /\ UNCHANGED << runResult, waitOutcome, tempdirCreated, status, result, killedRead >>
    /\ UNCHANGED << killed, sigkillSent, klog, fnVars, outerVars, envVars >>

SignalNext == Next \/ SupervisorSignal

\* The runs with a signal for the supervisor, under the fairness of FairSpec
\* and of the steps of the child.
SignalFairness ==
    /\ Fairness
    /\ WF_vars(ChildPrelude)
    /\ WF_vars(ChildPanicExit)

SignalSpec == Init /\ [][SignalNext]_vars /\ SignalFairness

(***************************************************************************)
(* The degraded backend: MacOSSandbox::run, its two watcher threads and    *)
(* MacOSSandbox::wait.  The wall time watcher thread has the body of the   *)
(* Linux one (WallKill, WallStore).                                        *)
(***************************************************************************)
\* run(): spawn the command, then the memory watcher thread if a memory
\* limit is configured, then the wall time watcher thread if a wall time
\* limit is configured; `?` turns each failure into Err and leaves what was
\* started before it running.
MacOSSandboxRun ==
    /\ platform = "macos"
    /\ callerPc = "run"
    /\ \E failure \in {"none", "spawn", "memory watcher", "wall watcher"} :
          /\ failure = "none" => MacOSCommand(config)[1] = "spawn"
          /\ failure = "memory watcher" =>
                MacOSCommand(config)[1] = "spawn" /\ IsSome(config.memory_limit)
          /\ failure = "wall watcher" =>
                MacOSCommand(config)[1] = "spawn" /\ IsSome(config.wall_time_limit)
          /\ IF failure = "spawn"
             THEN UNCHANGED << proc, childPc, progHalts >>
             ELSE /\ proc' = "alive"
                  /\ childPc' = "running"
                  /\ progHalts' \in BOOLEAN
          /\ memPc' = IF failure \in {"none", "wall watcher"} /\ IsSome(config.memory_limit)
                      THEN "polling" ELSE memPc
          /\ wallPc' = IF failure = "none" /\ IsSome(config.wall_time_limit)
                       THEN "sleep" ELSE wallPc
          /\ runResult' = IF failure = "none" THEN "Ok" ELSE "Err"
          /\ callerPc' = IF failure = "none" THEN "wait" ELSE "done"
    /\ UNCHANGED << waitOutcome, watcherVars, killed, sigkillSent, procStatus, klog >>
    /\ UNCHANGED << config, host, fnVars, platform, sigsegvSent, cliVars >>

\* One round of the memory watcher's loop that finds the child above the
\* limit: kill(child_pid, SIGSEGV), which ends the user program.  Nothing
\* is stored in `killed`.
MemoryWatcherKill ==
    /\ memPc = "polling"
    /\ proc = "alive"
    /\ childPc = "running"
    /\ proc' = "zombie"
    /\ procStatus' = SignaledStatus(SIGSEGV)
    /\ childPc' = "dead"
    /\ sigsegvSent' = TRUE
    /\ UNCHANGED << memPc, klog, wallVars, callerVars, watcherVars >>
    /\ UNCHANGED << envVars, fnVars, platform, cliVars >>

\* wait(), first half: self.child.wait()? blocks until the child has
\* terminated and reaps it, or fails.
MacOSSandboxWaitChild ==
    /\ platform = "macos"
    /\ callerPc = "wait"
    /\ \/ /\ proc = "zombie"
          /\ proc' = "reaped"
          /\ status' = procStatus
          /\ callerPc' = "wait_status"
          /\ UNCHANGED waitOutcome
       \/ /\ waitOutcome' = <<"Err">>
          /\ callerPc' = "done"
          /\ UNCHANGED << proc, status >>
    /\ UNCHANGED << runResult, watcherPc, tempdirCreated, result, killedRead >>
    /\ UNCHANGED << procStatus, childPc, klog, wallVars, envVars, fnVars, outerVars >>

\* The status of the result of wait(): killed first, then status.code(),
\* then status.signal(), else unreachable!().
MacOSTranslateStatus(k, s) ==
    IF k THEN Killed
    ELSE IF WIFEXITED(s) THEN ExitCode(WEXITSTATUS(s))
    ELSE IF WIFSIGNALED(s) THEN Signal(WTERMSIG(s))
    ELSE <<"unreachable">>

\* wait(), second half: killed.load() and the SandboxExecutionResult.
MacOSSandboxWaitResult ==
    /\ platform = "macos"
    /\ callerPc = "wait_status"
    /\ killedRead' = TRUE
    /\ LET s == MacOSTranslateStatus(killed, status)
       IN IF s = <<"unreachable">>
          THEN /\ waitOutcome' = <<"panic">>
               /\ UNCHANGED result
          ELSE /\ waitOutcome' = <<"Ok", s>>
               /\ result' = Some(s)
    /\ callerPc' = "done"
    /\ UNCHANGED << runResult, watcherPc, tempdirCreated, status >>
    /\ UNCHANGED << procVars, wallVars, envVars, fnVars, outerVars >>

\* The runs of the degraded backend.
MacOSInit ==
    /\ config \in Configurations
    /\ progHalts = FALSE
    /\ host = DefaultHost
    /\ platform = "macos"
    /\ IdleState
    /\ fnIn = <<>>
    /\ fnOut = <<>>

MacOSNext ==
    \/ MacOSSandboxRun
    \/ MemoryWatcherKill
    \/ WallKill
    \/ WallStore
    \/ MacOSSandboxWaitChild
    \/ MacOSSandboxWaitResult
    \/ ProgExit
    \/ ProgSignal

MacOSSpec == MacOSInit /\ [][MacOSNext]_vars

(***************************************************************************)
(* The tabox binary (src/src/bin/tabox.rs): main() checks the backend,     *)
(* builds the configuration from the command line, runs the sandbox, waits *)
(* and prints the result.  Command line strings are sequences of           *)
(* characters, where a word such as "bin" stands for its letters.          *)
(***************************************************************************)
\* Number of comma-separated tokens of a --mount value, and number of --env
\* options, that are enumerated.
MaxMountTokens == 4
MaxCliEnv == 2

\* is_secure() of SandboxImplementation when it is true on every platform.
IsSecure_Always(os) == TRUE

\* is_secure() of SandboxImplementation, selected by target_os.
IsSecure(os) == os = "linux"

\* str::split(sep): the pieces between the separators; one more piece than
\* there are separators.
RECURSIVE Split(_, _)
Split(s, sep) ==
    LET at == {i \in 1..Len(s) : s[i] = sep}
    IN IF at = {} THEN << s >>
       ELSE LET i == CHOOSE j \in at : \A k \in at : j <= k
            IN << SubSeq(s, 1, i - 1) >> \o Split(SubSeq(s, i + 1, Len(s)), sep)

\* str::splitn(2, sep): split at the first separator only.
SplitN2(s, sep) ==
    LET at == {i \in 1..Len(s) : s[i] = sep}
    IN IF at = {} THEN << s >>
       ELSE LET i == CHOOSE j \in at : \A k \in at : j <= k
            IN << SubSeq(s, 1, i - 1), SubSeq(s, i + 1, Len(s)) >>

\* PathBuf::from(&str), as the components of the path: a leading "/" is the
\* root, every other "/" separates two components.
PathFromStr(s) ==
    LET names == SelectSeq(s, LAMBDA ch : ch # "/")
    IN IF s # <<>> /\ s[1] = "/" THEN <<"/">> \o names ELSE names

\* std::env::var(name) in the environment of the tabox process.
EnvVar(parent, name) ==
    LET at == {i \in 1..Len(parent) : parent[i][1] = name}
    IN IF at = {} THEN <<"Err">> ELSE <<"Ok", parent[CHOOSE i \in at : TRUE][2]>>

\* One element of args.env: the setter call it makes, or the error.
ParseEnv_LastEquals(el, parent) ==
    LET at == {i \in 1..Len(el) : el[i] = "="}
    IN IF at = {}
       THEN LET value == EnvVar(parent, el)
            IN IF value[1] = "Err"
               THEN <<"Err", <<"Variable not present in the environment", el>> >>
               ELSE <<"Ok", <<"env", << el, value[2] >> >> >>
       ELSE LET i == CHOOSE j \in at : \A k \in at : j >= k
            IN <<"Ok", <<"env", << SubSeq(el, 1, i - 1), SubSeq(el, i + 1, Len(el)) >> >> >>

ParseEnv(el, parent) ==
    LET parts == SplitN2(el, "=")
    IN IF Len(parts) = 1
       THEN LET value == EnvVar(parent, parts[1])
            IN IF value[1] = "Err"
               THEN <<"Err", <<"Variable not present in the environment", parts[1]>> >>
               ELSE <<"Ok", <<"env", << parts[1], value[2] >> >> >>
       ELSE <<"Ok", <<"env", << parts[1], parts[2] >> >> >>

StrRw == <<"rw">>
StrRo == <<"ro">>

\* One element of args.mount when a second token "ro" is an option too.
ParseMount_RoOption(path) ==
    LET parts == Split(path, ",")
        mount(local, sandbox, writable) ==
            <<"Ok", <<"mount", DirectoryMount(PathFromStr(local), PathFromStr(sandbox),
                                              writable)>> >>
    IN CASE Len(parts) = 1 -> mount(parts[1], parts[1], FALSE)
         [] Len(parts) = 2 /\ parts[2] = StrRw -> mount(parts[1], parts[1], TRUE)
         [] Len(parts) = 2 /\ parts[2] = StrRo -> mount(parts[1], parts[1], FALSE)
         [] Len(parts) = 2 /\ parts[2] \notin {StrRw, StrRo} -> mount(parts[1], parts[2], FALSE)
         [] Len(parts) = 3 /\ parts[3] = StrRw -> mount(parts[1], parts[2], TRUE)
         [] Len(parts) = 3 /\ parts[3] = StrRo -> mount(parts[1], parts[2], FALSE)
         [] OTHER -> <<"Err", <<"Invalid mount point", path>> >>

\* One element of args.mount: the match on the tokens, in the order of its
\* arms.
ParseMount(path) ==
    LET parts == Split(path, ",")
        mount(local, sandbox, writable) ==
            <<"Ok", <<"mount", DirectoryMount(PathFromStr(local), PathFromStr(sandbox),
                                              writable)>> >>
    IN CASE Len(parts) = 1 -> mount(parts[1], parts[1], FALSE)
         [] Len(parts) = 2 /\ parts[2] = StrRw -> mount(parts[1], parts[1], TRUE)
         [] Len(parts) = 2 /\ parts[2] # StrRw -> mount(parts[1], parts[2], FALSE)
         [] Len(parts) = 3 /\ parts[3] = StrRw -> mount(parts[1], parts[2], TRUE)
         [] Len(parts) = 3 /\ parts[3] = StrRo -> mount(parts[1], parts[2], FALSE)
         [] OTHER -> <<"Err", <<"Invalid mount point", path>> >>

\* The loop over args.env: the calls of config.env() in order, or the error
\* of the first element that has one.
RECURSIVE EnvCalls(_, _)
EnvCalls(els, parent) ==
    IF els = <<>> THEN <<"Ok", <<>> >>
    ELSE LET first == ParseEnv(Head(els), parent)
         IN IF first[1] = "Err" THEN first
            ELSE LET rest == EnvCalls(Tail(els), parent)
                 IN IF rest[1] = "Err" THEN rest
                    ELSE <<"Ok", << first[2] >> \o rest[2]>>

\* The loop over args.mount.
RECURSIVE MountCalls(_)
MountCalls(paths) ==
    IF paths = <<>> THEN <<"Ok", <<>> >>
    ELSE LET first == ParseMount(Head(paths))
         IN IF first[1] = "Err" THEN first
            ELSE LET rest == MountCalls(Tail(paths))
                 IN IF rest[1] = "Err" THEN rest
                    ELSE <<"Ok", << first[2] >> \o rest[2]>>

\* An Option argument and the setter main() calls when it is given.
OptionCall(setter, option) ==
    IF IsSome(option) THEN << <<setter, Unwrap(option)>> >> ELSE <<>>

\* main() from SandboxConfiguration::default() to config.build(): the
\* configuration, or the error main() returns.
CliConfiguration(args, parent) ==
    LET envs == EnvCalls(args.env, parent)
        mounts == MountCalls(args.mount)
        calls == << <<"executable", args.executable>>,
                    <<"mount_tmpfs", args.mount_tmpfs>>,
                    <<"uid", args.uid>>,
                    <<"gid", args.gid>>,
                    <<"mount_proc", args.mount_proc>> >>
                 \o OptionCall("time_limit", args.time_limit)
                 \o (IF IsSome(args.memory_limit)
                     THEN << <<"memory_limit", Unwrap(args.memory_limit) * 1000000>> >>
                     ELSE <<>>)
                 \o OptionCall("wall_time_limit", args.wall_limit)
                 \o OptionCall("stdin", args.stdin)
                 \o OptionCall("stdout", args.stdout)
                 \o OptionCall("stderr", args.stderr)
                 \o OptionCall("working_directory", args.working_directory)
                 \o OptionCall("run_on_core", args.cpu_core)
                 \o [i \in 1..Len(args.args) |-> <<"arg", args.args[i]>>]
    IN IF envs[1] = "Err" THEN envs
       ELSE IF mounts[1] = "Err" THEN mounts
       ELSE <<"Ok", ApplySetters(DefaultConfiguration,
                       calls \o envs[2] \o mounts[2]
                       \o << <<"syscall_filter",
                              SyscallFilterBuild(args.allow_multiprocess,
                                                 args.allow_chmod)>> >>)>>

\* main() up to the call of run(): the refusal of an insecure backend
\* (exit(1)), an error of the command line (main returns Err: exit code 1),
\* or the configuration run() is about to be called with.
CliConfigure ==
    /\ cliPc = "start"
    /\ IF ~IsSecure(platform) /\ ~cliArgs.allow_insecure
       THEN /\ cliStderr' = Append(cliStderr, <<"refusal">>)
            /\ cliExit' = Some(1)
            /\ cliPc' = "exited"
            /\ UNCHANGED << config, callerPc >>
       ELSE LET built == CliConfiguration(cliArgs, host.env)
            IN IF built[1] = "Err"
               THEN /\ cliStderr' = Append(cliStderr, <<"error", built[2]>>)
                    /\ cliExit' = Some(1)
                    /\ cliPc' = "exited"
                    /\ UNCHANGED << config, callerPc >>
               ELSE /\ config' = built[2]
                    /\ callerPc' = "run"
                    /\ cliPc' = "sandbox"
                    /\ UNCHANGED << cliStderr, cliExit >>
    /\ UNCHANGED << runResult, waitOutcome, watcherVars, wallVars, procVars >>
    /\ UNCHANGED << progHalts, host, fnVars, platform, macVars, cliArgs >>

\* main() when its exit code follows the status of the user program.
CliFinish_ExitWithStatus ==
    /\ cliPc = "sandbox"
    /\ callerPc = "done"
    /\ IF runResult = "Err"
       THEN /\ cliStderr' = Append(cliStderr, <<"error", <<"Error running the sandbox">> >>)
            /\ cliExit' = Some(1)
       ELSE IF waitOutcome[1] = "Err"
       THEN /\ cliStderr' = Append(cliStderr,
                                   <<"error", <<"Error waiting for sandbox result">> >>)
            /\ cliExit' = Some(1)
       ELSE IF waitOutcome[1] = "panic"
       THEN /\ cliStderr' = Append(cliStderr, <<"panic">>)
            /\ cliExit' = Some(101)
       ELSE /\ cliStderr' = Append(cliStderr,
                                   <<"record", IF cliArgs.json THEN "json" ELSE "debug",
                                     waitOutcome[2]>>)
            /\ cliExit' = Some(IF waitOutcome[2] = ExitCode(0) THEN 0 ELSE 1)
    /\ cliPc' = "exited"
    /\ UNCHANGED << callerVars, watcherVars, wallVars, procVars >>
    /\ UNCHANGED << envVars, fnVars, platform, macVars, cliArgs >>

\* main() after run() and wait(): an error of either is returned (exit code
\* 1), a panic of wait() ends the process with code 101, and a result is
\* printed to stderr, as JSON or with {:#?}, before main returns Ok(()).
CliFinish ==
    /\ cliPc = "sandbox"
    /\ callerPc = "done"
    /\ IF runResult = "Err"
       THEN /\ cliStderr' = Append(cliStderr, <<"error", <<"Error running the sandbox">> >>)
            /\ cliExit' = Some(1)
       ELSE IF waitOutcome[1] = "Err"
       THEN /\ cliStderr' = Append(cliStderr,
                                   <<"error", <<"Error waiting for sandbox result">> >>)
            /\ cliExit' = Some(1)
       ELSE IF waitOutcome[1] = "panic"
       THEN /\ cliStderr' = Append(cliStderr, <<"panic">>)
            /\ cliExit' = Some(101)
       ELSE /\ cliStderr' = Append(cliStderr,
                                   <<"record", IF cliArgs.json THEN "json" ELSE "debug",
                                     waitOutcome[2]>>)
            /\ cliExit' = Some(0)
    /\ cliPc' = "exited"
    /\ UNCHANGED << callerVars, watcherVars, wallVars, procVars >>
    /\ UNCHANGED << envVars, fnVars, platform, macVars, cliArgs >>

\* The command lines of the model: a base one, and families that vary the
\* flags, the --mount values and the --env values.
StrBin == <<"/", "bin">>
StrWork == <<"/", "work">>

CliBaseArgs ==
    [ time_limit |-> None, memory_limit |-> None, executable |-> PBinSh,
      args |-> <<>>, env |-> <<>>, mount |-> << StrBin >>,
      working_directory |-> None, allow_chmod |-> FALSE,
      allow_multiprocess |-> FALSE, stdin |-> None, stdout |-> None,
      stderr |-> None, allow_insecure |-> FALSE, json |-> FALSE,
      mount_tmpfs |-> FALSE, wall_limit |-> None, cpu_core |-> None,
      uid |-> 0, gid |-> 0, mount_proc |-> FALSE ]

MountTokens == {StrBin, StrWork, StrRw, StrRo}

\* Every --mount value of at most n tokens.
RECURSIVE MountValues(_)
MountValues(n) ==
    IF n = 1 THEN MountTokens
    ELSE LET shorter == MountValues(n - 1)
         IN shorter \cup {s \o <<",">> \o t : s \in shorter, t \in MountTokens}

EnvValues ==
    { <<"A", "=", "1">>, <<"A", "=", "1", "=", "2">>, <<"B", "=">>,
      <<"A">>, <<"P">>, <<"B", "=", "2">> }

\* Every sequence of at most n --env values.
RECURSIVE EnvOptions(_)
EnvOptions(n) ==
    IF n = 0 THEN {<<>>}
    ELSE LET shorter == EnvOptions(n - 1)
         IN shorter \cup {Append(s, e) : s \in shorter, e \in EnvValues}

CliArguments ==
    { [CliBaseArgs EXCEPT !.allow_insecure = a, !.json = j, !.wall_limit = w,
                          !.memory_limit = l, !.time_limit = t] :
        a \in BOOLEAN, j \in BOOLEAN, w \in {None, Some(1)}, l \in {None, Some(1)},
        t \in {None, Some(2)} }
    \cup { [CliBaseArgs EXCEPT !.allow_insecure = TRUE, !.mount = m] :
             m \in {<<>>} \cup {<< s >> : s \in MountValues(MaxMountTokens)}
                   \cup {<< StrBin, s >> : s \in MountValues(MaxMountTokens)} }
    \cup { [CliBaseArgs EXCEPT !.allow_insecure = TRUE, !.env = e] :
             e \in EnvOptions(MaxCliEnv) }

CliInit ==
    /\ config = DefaultConfiguration
    /\ progHalts = FALSE
    /\ host \in {[DefaultHost EXCEPT !.env = e] : e \in HostEnvironments}
    /\ platform \in {"linux", "macos"}
    /\ callerPc = "main"
    /\ runResult = "none"
    /\ waitOutcome = <<"none">>
    /\ watcherPc = "none"
    /\ tempdirCreated = FALSE
    /\ status = 0
    /\ result = None
    /\ killed = FALSE
    /\ killedRead = FALSE
    /\ wallPc = "none"
    /\ sigkillSent = FALSE
    /\ proc = "none"
    /\ procStatus = 0
    /\ childPc = "none"
    /\ klog = <<>>
    /\ memPc = "none"
    /\ sigsegvSent = FALSE
    /\ cliPc = "start"
    /\ cliArgs \in CliArguments
    /\ cliExit = None
    /\ cliStderr = <<>>
    /\ fnIn = <<>>
    /\ fnOut = <<>>

CliNext ==
    \/ CliConfigure
    \/ CliFinish
    \/ Next
    \/ MacOSSandboxRun
    \/ MemoryWatcherKill
    \/ MacOSSandboxWaitChild
    \/ MacOSSandboxWaitResult

CliSpec == CliInit /\ [][CliNext]_vars

(***************************************************************************)
(* ExitStatus::success as a function of every exit status.                 *)
(***************************************************************************)
\* success() of a variant that agrees with ExitCode(0) on its number.
Success_AnyZero(exit_status) ==
    exit_status[1] # "Killed" /\ exit_status[2] = 0

\* success(): self == ExitStatus::ExitCode(0), the derived equality.
Success(exit_status) ==
    exit_status = ExitCode(0)

\* The exit statuses: ExitCode(i32), Signal(i32), Killed.
ExitStatuses ==
    {ExitCode(n) : n \in -MaxRawCode..MaxRawCode}
        \cup {Signal(n) : n \in -MaxRawCode..MaxRawCode}
        \cup {Killed}

SuccessInit ==
    /\ config = DefaultConfiguration
    /\ progHalts = FALSE
    /\ host = DefaultHost
    /\ platform = "linux"
    /\ IdleState
    /\ fnIn \in {<< e >> : e \in ExitStatuses}
    /\ fnOut = <<>>

SuccessApply ==
    /\ fnIn # <<>>
    /\ fnOut = <<>>
    /\ fnOut' = << Success(fnIn[1]) >>
    /\ UNCHANGED << fnIn, outerVars, callerVars, watcherVars, wallVars, procVars, envVars >>

SuccessSpec == SuccessInit /\ [][SuccessApply]_vars

(***************************************************************************)
(* Properties.                                                             *)
(***************************************************************************)
\* The operations of the child that precede its execve.
BeforeExecve(log) ==
    LET idx == {i \in 1..Len(log) : log[i][1] = "execve"}
    IN SubSeq(log, 1, MaxOf(idx) - 1)

LimitInstalled(log, resource, limit) ==
    IsSome(limit) => InstalledLimit(log, resource) = Some(<<Unwrap(limit), Unwrap(limit)>>)

\* C1: whenever the child has reached execve of the user program, the
\* configured limits (RLIMIT_AS, RLIMIT_CPU, RLIMIT_CORE = 0) and the
\* configured syscall filter were installed before that execve.
C1_LimitsAndFilterBeforeExecve ==
    Performed(klog, "execve") =>
        LET pre == BeforeExecve(klog)
        IN /\ LimitInstalled(pre, "RLIMIT_AS", config.memory_limit)
           /\ LimitInstalled(pre, "RLIMIT_CPU", config.time_limit)
           /\ LimitInstalled(pre, "RLIMIT_CORE", Some(0))
           /\ IsSome(config.syscall_filter) =>
                 LoadedFilter(pre) = Some(RequestedFilter(Unwrap(config.syscall_filter)))

\* C2: once a step of the child's setup has failed, the user program is
\* never executed.
C2_NoExecveAfterFailedSetup ==
    \A j \in 1..Len(klog) :
        klog[j][1] = "execve" => ~SetupFailed(SubSeq(klog, 1, j - 1))

\* C3: when the child's setup failed before execve, wait() returns an error
\* and no result whose ExitStatus comes from the failed setup process.
C3_FailedSetupIsAnError ==
    (callerPc = "done" /\ runResult = "Ok" /\ watcherPc = "returned"
        /\ SetupFailed(klog) /\ ~Performed(klog, "execve"))
    => waitOutcome = <<"Err">>

\* C4: when the wall time watcher's SIGKILL was sent before the child was
\* reaped, the status of the result is Killed.
C4_KilledSupremacy ==
    (sigkillSent /\ IsSome(result)) => Unwrap(result) = Killed

\* C5: the killed flag is set before the wall time watcher sends SIGKILL.
C5_KilledSetBeforeSigkill == sigkillSent => killed

UnknownStatusError == <<"Err: unknown status">>

\* C6: killed -> Killed; else exited -> ExitCode(code); else signaled ->
\* Signal(signum); else an "unknown status" error and no ExitStatus.
C6_StatusPriority ==
    fnOut # <<>> =>
        fnOut[1] = (IF fnIn[1] THEN Killed
                    ELSE IF WIFEXITED(fnIn[2]) THEN ExitCode(WEXITSTATUS(fnIn[2]))
                    ELSE IF WIFSIGNALED(fnIn[2]) THEN Signal(WTERMSIG(fnIn[2]))
                    ELSE UnknownStatusError)

\* C7: the killed flag is read, the result is built and wait() returns it
\* only after wait4 has reaped the child.
C7_ResultOnlyAfterReap ==
    (killedRead \/ IsSome(result) \/ waitOutcome[1] = "Ok") => proc = "reaped"

C7_Witness == waitOutcome[1] = "Ok" /\ killedRead /\ proc = "reaped"

\* C8: with a wall time limit, a wall time watcher running and a user
\* program that never terminates on its own, SIGKILL is eventually sent,
\* wait4 returns and wait() returns a result.
C8_WallLimitEndsTheRun ==
    (IsSome(config.wall_time_limit) /\ wallPc = "sleep"
        /\ childPc = "running" /\ ~progHalts)
    ~> (sigkillSent /\ proc = "reaped" /\ waitOutcome[1] = "Ok")

C8_Witness ==
    /\ IsSome(config.wall_time_limit)
    /\ Performed(klog, "execve")
    /\ ~progHalts
    /\ sigkillSent
    /\ proc = "reaped"
    /\ waitOutcome[1] = "Ok"

\* C9: when the watcher thread panicked, wait() returns an error value.
C9_WatcherPanicIsAnError ==
    (callerPc = "done" /\ watcherPc = "panicked") => waitOutcome = <<"Err">>

\* C10: run() returns success only after the temporary sandbox root
\* directory has been created.
C10_RunOkOnlyAfterTempDir == runResult = "Ok" => tempdirCreated

\* Filesystem assembly has succeeded: the child is past setup_filesystem().
FsAssembled ==
    childPc \in {"setup_resource_limits", "setup_syscall_filter", "setup_io_redirection",
                 "setup_thread_affinity", "enter_chroot", "exec_child", "running"}

\* C11: for every configuration, once filesystem assembly has succeeded the
\* sandbox root is read-only: creating a file directly under "/" fails.
C11_RootIsReadOnly ==
    FsAssembled => ~FileCreatable(klog, <<"/", "file">>)

C11_Witness ==
    /\ Performed(klog, "execve")
    /\ config.mount_tmpfs
    /\ Len(config.mount_paths) = MaxMounts
    /\ \E i \in 1..Len(config.mount_paths) : config.mount_paths[i].writable
    /\ ~FileCreatable(klog, <<"/", "file">>)

\* File creation under the target of mount entry i follows the entry.
EntryPolicyHolds(log, dirs, i) ==
    FileCreatable(log, Append(dirs[i].target, "file")) = dirs[i].writable

\* C12 as claimed: after filesystem assembly, file creation under the target
\* of every mount entry succeeds iff the entry is writable, whatever the
\* other entries are, and /tmp and /dev/shm are writable with mount_tmpfs.
C12_MountPolicy ==
    FsAssembled =>
        /\ \A i \in 1..Len(config.mount_paths) :
              EntryPolicyHolds(klog, config.mount_paths, i)
        /\ config.mount_tmpfs =>
              /\ FileCreatable(klog, Append(PTmp, "file"))
              /\ FileCreatable(klog, Append(PDevShm, "file"))

\* A later mount entry covers the path: its target is the path or one of
\* its ancestors.
CoveredAfter(dirs, i, path) ==
    \E k \in (i + 1)..Len(dirs) : IsPrefix(dirs[k].target, path)

\* C12 as amended: the same for every mount entry whose target no later
\* entry covers, and for /tmp and /dev/shm when no mount entry covers them.
C12_MountPolicyOfUncoveredTargets ==
    FsAssembled =>
        /\ \A i \in 1..Len(config.mount_paths) :
              ~CoveredAfter(config.mount_paths, i, config.mount_paths[i].target)
                  => EntryPolicyHolds(klog, config.mount_paths, i)
        /\ config.mount_tmpfs =>
              /\ ~CoveredAfter(config.mount_paths, 0, PTmp)
                    => FileCreatable(klog, Append(PTmp, "file"))
              /\ ~CoveredAfter(config.mount_paths, 0, PDevShm)
                    => FileCreatable(klog, Append(PDevShm, "file"))

C12_Witness ==
    /\ FsAssembled
    /\ config.mount_tmpfs
    /\ FileCreatable(klog, Append(PTmp, "file"))
    /\ Len(config.mount_paths) = 2
    /\ ~config.mount_paths[1].writable
    /\ ~FileCreatable(klog, Append(config.mount_paths[1].target, "file"))
    /\ config.mount_paths[2].writable
    /\ FileCreatable(klog, Append(config.mount_paths[2].target, "file"))

\* What the message of the child's panic tells about a failed operation:
\* check_syscall! prints the text of the call, the code and errno, unwrap()
\* prints the io::Error.
FailureReport(op) ==
    CASE op[1] = "create_dir_all" ->
            [operation |-> None, source |-> None, target |-> None]
      [] op[1] = "panic" ->
            [operation |-> Some(op[2]), source |-> None, target |-> None]
      [] OTHER ->
            [operation |-> Some(op[1]), source |-> None, target |-> None]

\* The report the claim asks for.
FullReport(op) ==
    IF op[1] = "create_dir_all"
    THEN [operation |-> Some(op[1]), source |-> None, target |-> Some(op[2])]
    ELSE [operation |-> Some(op[1]), source |-> Some(op[2]), target |-> Some(op[3])]

\* C13: a failing mount or directory creation of filesystem assembly is the
\* last step of the assembly, and its error names the operation with its
\* source and target.
C13_MountFailureAbortsAndReports ==
    \A j \in 1..Len(klog) :
        (klog[j][1] = "failed" /\ klog[j][2][1] \in {"mount", "create_dir_all"})
        => /\ j = Len(klog)
           /\ FailureReport(klog[j][2]) = FullReport(klog[j][2])

\* The execve of the child (Linux) and the spawn of the command (degraded
\* backend), when they were made.
ExecveOf(log) == log[MaxOf({j \in 1..Len(log) : log[j][1] = "execve"})]

Spawned == fnOut # <<>> /\ fnOut[1] = "spawn"

ArgvShape(argv, c) ==
    /\ Len(argv) = Len(c.args) + 1
    /\ argv[1] = c.executable
    /\ \A i \in 1..Len(c.args) : argv[i + 1] = c.args[i]

\* C14: the argument vector the user program is executed with is the
\* executable followed by config.args in their configured order.
C14_ArgvShape ==
    /\ Performed(klog, "execve") => ArgvShape(ExecveOf(klog)[3], config)
    /\ Spawned => ArgvShape(fnOut[3], config)

C14_Witness ==
    /\ Performed(klog, "execve")
    /\ config.args = << ArgX, ArgC >>
    /\ ExecveOf(klog)[3] = << PBinSh, ArgX, ArgC >>

\* The entries name=value of the configured pairs, in order.
ConfiguredEntries(c) ==
    [i \in 1..Len(c.env) |-> c.env[i][1] \o <<"=">> \o c.env[i][2]]

\* No variable of the parent's environment is in envp unless configured.
NoParentVariable(envp, c) ==
    \A i \in 1..Len(host.env) :
        (\E k \in 1..Len(envp) : envp[k] = host.env[i][1] \o <<"=">> \o host.env[i][2])
        => \E k \in 1..Len(c.env) : c.env[k] = host.env[i]

\* C15 as claimed: the environment passed to the user program is exactly
\* the configured pairs, in order, with nothing of the parent's environment.
C15_EnvironmentHermeticity ==
    /\ Performed(klog, "execve") =>
          /\ ExecveOf(klog)[4] = ConfiguredEntries(config)
          /\ NoParentVariable(ExecveOf(klog)[4], config)
    /\ Spawned =>
          /\ fnOut[4] = ConfiguredEntries(config)
          /\ NoParentVariable(fnOut[4], config)

\* One entry for every configured name, with the value configured last.
LastConfiguredEntries(c) ==
    { c.env[i][1] \o <<"=">> \o c.env[i][2] :
        i \in {k \in 1..Len(c.env) :
                 \A l \in (k + 1)..Len(c.env) : c.env[l][1] # c.env[k][1]} }

\* C15 as amended: on the Linux backend exactly the configured pairs in
\* order; on the degraded backend one entry for every configured name, with
\* the value configured last; on both nothing of the parent's environment.
C15_ConfiguredEnvironmentOnly ==
    /\ Performed(klog, "execve") =>
          /\ ExecveOf(klog)[4] = ConfiguredEntries(config)
          /\ NoParentVariable(ExecveOf(klog)[4], config)
    /\ Spawned =>
          /\ {fnOut[4][k] : k \in 1..Len(fnOut[4])} = LastConfiguredEntries(config)
          /\ Len(fnOut[4]) = Cardinality(LastConfiguredEntries(config))
          /\ NoParentVariable(fnOut[4], config)

C15_Witness ==
    /\ Performed(klog, "execve")
    /\ Spawned
    /\ host.env = << EnvA1, EnvP >>
    /\ config.env = << EnvB2, EnvA3 >>
    /\ ExecveOf(klog)[4] = << <<"B", "=", "2">>, <<"A", "=", "3">> >>
    /\ fnOut[4] = << <<"A", "=", "3">>, <<"B", "=", "2">> >>

\* C16: the child writes "deny" to setgroups, then the uid_map line
\* "{config.uid} {parent uid} 1" and the gid_map line for config.gid, and
\* the user program runs with the configured uid and gid.
C16_IdentityMapping ==
    /\ Performed(klog, "prctl") =>
          /\ klog[1] = <<"write", "/proc/self/setgroups", "deny">>
          /\ klog[2] = <<"write", "/proc/self/uid_map", <<config.uid, "uid", 1>> >>
          /\ klog[3] = <<"write", "/proc/self/gid_map", <<config.gid, "gid", 1>> >>
    /\ Performed(klog, "execve") =>
          /\ MappedId(klog, "/proc/self/uid_map") = config.uid
          /\ MappedId(klog, "/proc/self/gid_map") = config.gid

\* The limit the configuration requests for a resource, if any.
RequestedLimit(c, resource) ==
    CASE resource \in {"RLIMIT_AS", "RLIMIT_RSS"} -> c.memory_limit
      [] resource = "RLIMIT_CPU" -> c.time_limit
      [] resource = "RLIMIT_CORE" -> Some(0)
      [] resource = "RLIMIT_STACK" ->
            IF IsSome(c.stack_limit) THEN c.stack_limit ELSE Some(RLIM_INFINITY)

MinOf(a, b) == IF a <= b THEN a ELSE b

\* Every setrlimit of the log succeeded and installed min(request, hard limit).
ClampedInstalls(log, c) ==
    \A j \in 1..Len(log) :
        /\ ~(log[j][1] = "failed" /\ log[j][2][1] = "setrlimit")
        /\ log[j][1] = "setrlimit" =>
              LET v == MinOf(Unwrap(RequestedLimit(c, log[j][2])), host.rlim_max[log[j][2]])
              IN log[j][3] = v /\ log[j][4] = v

\* C17: every limit the sandbox installs has rlim_cur = rlim_max =
\* min(requested, inherited hard limit); a request above the hard limit is
\* capped and never makes the setup fail.
C17_HardLimitClamp ==
    /\ ClampedInstalls(klog, config)
    /\ Spawned => ClampedInstalls(fnOut[5], config)

\* C18: RLIMIT_STACK is always set by the resource-limit installation, to
\* stack_limit when configured and to infinity otherwise, subject to the
\* hard-limit clamp.
C18_StackLimitAlwaysSet ==
    Performed(klog, "execve") =>
        LET v == MinOf(Unwrap(RequestedLimit(config, "RLIMIT_STACK")),
                       host.rlim_max["RLIMIT_STACK"])
        IN InstalledLimit(BeforeExecve(klog), "RLIMIT_STACK") = Some(<<v, v>>)

C20_UnknownSyscallAborts ==
    \A j \in 1..Len(klog) :
        (klog[j][1] = "failed" /\ klog[j][2][1] = "seccomp_syscall_resolve_name")
        => \A i \in (j + 1)..Len(klog) : klog[i][1] \notin {"seccomp_load", "execve"}

\* C21: the success predicate is true for ExitCode(0) and false for every
\* other exit status: ExitCode(n) with n # 0, Signal(n) for every n, Signal(0)
\* included, and Killed.
C21_SuccessOnlyForExitCodeZero ==
    fnOut # <<>> =>
        LET e == fnIn[1]
        IN /\ (e[1] = "ExitCode" /\ e[2] = 0) => fnOut[1] = TRUE
           /\ (e[1] = "ExitCode" /\ e[2] # 0) => fnOut[1] = FALSE
           /\ e[1] = "Signal" => fnOut[1] = FALSE
           /\ e[1] = "Killed" => fnOut[1] = FALSE

\* success() has been applied to Signal(0).
C21_Witness ==
    fnOut = << FALSE >> /\ fnIn = << Signal(0) >>

\* The child of the degraded backend was ended by the signal of the memory
\* watcher, and wait() has returned a result.
WatchdogEnded(outcome) ==
    outcome[1] = "Ok" /\ sigsegvSent

\* The child was ended by a signal of the kernel, no thread of the
\* supervisor has signalled it, and wait() has returned a result.
KernelEnded(outcome) ==
    /\ outcome[1] = "Ok"
    /\ ~sigsegvSent
    /\ ~sigkillSent
    /\ WIFSIGNALED(status)

\* C22: on the degraded backend, a child that the memory watcher ended for
\* exceeding memory_limit is reported as Killed, and a child that a signal of
\* the kernel ended is reported as Signal(n).
C22_WatchdogKillIsKilled ==
    platform = "macos" =>
        /\ WatchdogEnded(waitOutcome) => waitOutcome[2] = Killed
        /\ KernelEnded(waitOutcome) => waitOutcome[2] = Signal(WTERMSIG(status))

\* The supervising process has received SIGINT or SIGTERM while its child
\* exists and has not been reaped.
InterruptedWithChild ==
    callerPc = "interrupted" /\ proc \in {"alive", "zombie"}

\* C23: if the supervising process receives SIGINT or SIGTERM while a
\* sandboxed child is running, the child is sent SIGKILL, so that it
\* eventually terminates and the blocked wait4 of the watcher returns.
C23_SignalBridge ==
    InterruptedWithChild ~>
        (proc \in {"zombie", "reaped"} /\ watcherPc \in {"translate", "returned"})

\* main() has printed the refusal of the insecure backend.
Refused == \E i \in 1..Len(cliStderr) : cliStderr[i] = <<"refusal">>

\* C24: is_secure() is true for the Linux backend (the tabox binary never
\* refuses there) and false for the degraded backend: without
\* --allow-insecure the binary never calls run() on it, and ends with the
\* refusal and a nonzero exit code.
C24_InsecureBackendNeedsFlag ==
    /\ platform = "linux" => ~Refused
    /\ (platform = "macos" /\ ~cliArgs.allow_insecure) =>
          /\ callerPc = "main" /\ runResult = "none" /\ proc = "none"
          /\ cliPc = "exited" => (Refused /\ IsSome(cliExit) /\ Unwrap(cliExit) # 0)

\* The binary has refused to run on the degraded backend.
C24_Witness ==
    /\ platform = "macos" /\ ~cliArgs.allow_insecure
    /\ cliPc = "exited" /\ cliExit = Some(1) /\ Refused

\* The tokens of a --mount value, counted and cut at its commas.
CommasOf(s) == {i \in 1..Len(s) : s[i] = ","}
TokenCount(s) == Cardinality(CommasOf(s)) + 1
CommaAt(s, k) ==
    IF k = 0 THEN 0
    ELSE IF k = TokenCount(s) THEN Len(s) + 1
    ELSE CHOOSE i \in CommasOf(s) : Cardinality({j \in CommasOf(s) : j <= i}) = k
TokenOf(s, k) == SubSeq(s, CommaAt(s, k - 1) + 1, CommaAt(s, k) - 1)

\* The shapes of a --mount value that are accepted, and the mount of each.
MountAccepted(s) ==
    \/ TokenCount(s) \in {1, 2}
    \/ TokenCount(s) = 3 /\ TokenOf(s, 3) \in {StrRw, StrRo}

MountExpected(s) ==
    LET local == PathFromStr(TokenOf(s, 1))
        second == PathFromStr(TokenOf(s, 2))
    IN CASE TokenCount(s) = 1 -> DirectoryMount(local, local, FALSE)
         [] TokenCount(s) = 2 /\ TokenOf(s, 2) = StrRw -> DirectoryMount(local, local, TRUE)
         [] TokenCount(s) = 2 /\ TokenOf(s, 2) # StrRw -> DirectoryMount(local, second, FALSE)
         [] TokenCount(s) = 3 -> DirectoryMount(local, second, TokenOf(s, 3) = StrRw)

\* main() has printed the error of a variable missing from its environment.
EnvError ==
    \E i \in 1..Len(cliStderr) :
        /\ cliStderr[i][1] = "error"
        /\ cliStderr[i][2][1] = "Variable not present in the environment"

\* run() has not been called and no child exists.
SandboxNotRun == callerPc = "main" /\ runResult = "none" /\ proc = "none"

\* C25: every --mount value LOCAL, LOCAL,rw, LOCAL,SANDBOX, LOCAL,SANDBOX,rw
\* and LOCAL,SANDBOX,ro becomes the mount the claim gives for its shape, in
\* the order of the command line; any other shape ends the binary with an
\* error that names the value, a nonzero exit code and no sandbox run; a
\* mount is writable only if the last token of its value is rw.
C25_MountParsing ==
    (cliPc \in {"sandbox", "exited"} /\ ~Refused /\ ~EnvError) =>
        LET specs == cliArgs.mount
            bad == {i \in 1..Len(specs) : ~MountAccepted(specs[i])}
        IN IF bad = {}
           THEN /\ ~SandboxNotRun
                /\ Len(config.mount_paths) = Len(specs)
                /\ \A i \in 1..Len(specs) :
                      /\ config.mount_paths[i] = MountExpected(specs[i])
                      /\ config.mount_paths[i].writable =>
                            TokenOf(specs[i], TokenCount(specs[i])) = StrRw
           ELSE /\ SandboxNotRun
                /\ cliPc = "exited"
                /\ IsSome(cliExit) /\ Unwrap(cliExit) # 0
                /\ cliStderr = << <<"error", <<"Invalid mount point",
                                               specs[CHOOSE i \in bad : \A j \in bad : i <= j]>> >> >>

\* The sandbox runs with the writable mount of --mount=/bin,/work,rw.
C25_Witness ==
    /\ cliArgs.mount = << StrBin \o <<",">> \o StrWork \o <<",">> \o StrRw >>
    /\ config.mount_paths = << DirectoryMount(PBin, PWork, TRUE) >>
    /\ runResult = "Ok"

\* main() has printed the error of a --mount value.
MountError ==
    \E i \in 1..Len(cliStderr) :
        cliStderr[i][1] = "error" /\ cliStderr[i][2][1] = "Invalid mount point"

HasEquals(el) == \E i \in 1..Len(el) : el[i] = "="

\* The variables of the environment of the tabox process.
ParentHas(name) == \E j \in 1..Len(host.env) : host.env[j][1] = name

\* C26: in the order of the command line, every --env value VAR=VAL adds the
\* pair (VAR, VAL) cut at its first '=' (VAR holds no '='), and every bare
\* VAR adds (VAR, value of VAR in the parent environment); a bare VAR that
\* the parent environment does not hold ends the binary with an error, a
\* nonzero exit code and no sandbox run.
C26_EnvParsing ==
    (cliPc \in {"sandbox", "exited"} /\ ~Refused /\ ~MountError) =>
        LET els == cliArgs.env
            missing == {i \in 1..Len(els) : ~HasEquals(els[i]) /\ ~ParentHas(els[i])}
        IN IF missing = {}
           THEN /\ ~SandboxNotRun
                /\ Len(config.env) = Len(els)
                /\ \A i \in 1..Len(els) :
                      LET pair == config.env[i]
                      IN IF HasEquals(els[i])
                         THEN /\ pair[1] \o <<"=">> \o pair[2] = els[i]
                              /\ ~HasEquals(pair[1])
                         ELSE /\ pair[1] = els[i]
                              /\ \E j \in 1..Len(host.env) : host.env[j] = pair
           ELSE /\ SandboxNotRun
                /\ cliPc = "exited"
                /\ IsSome(cliExit) /\ Unwrap(cliExit) # 0
                /\ cliStderr = << <<"error", <<"Variable not present in the environment",
                                               els[CHOOSE i \in missing : \A j \in missing : i <= j]>> >> >>

\* The sandbox runs with the environment of --env A=1=2 --env P.
C26_Witness ==
    /\ cliArgs.env = << <<"A", "=", "1", "=", "2">>, <<"P">> >>
    /\ config.env = << << <<"A">>, <<"1", "=", "2">> >>, EnvP >>
    /\ runResult = "Ok"

\* The result records among the lines main() has printed.
Records == SelectSeq(cliStderr, LAMBDA line : line[1] = "record")

\* C27: the binary prints the result record and exits with code 0 if and
\* only if both run() and wait() succeeded, whatever the exit status of the
\* user program; on a refusal, an error of the command line, or an error of
\* run() or wait() it exits with a nonzero code and prints no record.
C27_RecordIffRunAndWaitOk ==
    IF cliPc = "exited"
    THEN /\ IsSome(cliExit)
         /\ (runResult = "Ok" /\ waitOutcome[1] = "Ok") <=> cliExit = Some(0)
         /\ cliExit = Some(0) =>
               \E format \in {"json", "debug"} :
                   Records = << <<"record", format, waitOutcome[2]>> >>
         /\ cliExit # Some(0) => Records = <<>>
    ELSE cliExit = None /\ Records = <<>>

\* The binary has printed the record of a user program that did not
\* succeed, and has exited with code 0.
C27_Witness ==
    /\ cliPc = "exited" /\ cliExit = Some(0)
    /\ waitOutcome[1] = "Ok" /\ waitOutcome[2] \in {Killed, Signal(SIGSEGV), ExitCode(2)}
    /\ Len(Records) = 1

\* The name of an operation of the log, performed or failed.
OpName(op) == IF op[1] = "failed" THEN op[2][1] ELSE op[1]

\* The positions of the log at which an operation of the given names was
\* performed.
PositionsOf(log, names) == {i \in 1..Len(log) : log[i][1] \in names}

\* The operations that assemble the filesystem, prepare stdio, set the CPU
\* affinity, enter the chroot and install the resource limits.
RestrictionOps ==
    {"create_dir_all", "mknod", "mount", "open", "create", "dup2",
     "sched_setaffinity", "chroot", "chdir", "setrlimit"}

\* C28: the syscall filter is the last restriction installed: no operation
\* of the filesystem assembly, the stdio preparation, the CPU affinity, the
\* chroot and chdir or the resource limits is attempted after seccomp_load.
C28_FilterIsLastRestriction ==
    \A i \in PositionsOf(klog, {"seccomp_load"}) :
        \A j \in (i + 1)..Len(klog) : OpName(klog[j]) \notin RestrictionOps

\* The read-only remounts of the sandbox root in the log.
RootRemounts(log) ==
    {i \in PositionsOf(log, {"mount"}) :
        log[i][3] = RootPath /\ {"MS_REMOUNT", "MS_RDONLY"} \subseteq log[i][5]}

Before(is, js) == is # {} /\ \A j \in js : \E i \in is : i < j

\* C29: execve of the user program is attempted only after chroot and the
\* chdir to working_directory; chroot only after the filesystem assembly,
\* its final read-only remount of the root included; and the files of the
\* stdio redirections, which are paths of the host, are opened before chroot.
C29_ExecAfterChrootAfterAssembly ==
    LET execs == {i \in 1..Len(klog) : OpName(klog[i]) = "execve"}
        chroots == {i \in 1..Len(klog) : OpName(klog[i]) = "chroot"}
        chdirs == {i \in PositionsOf(klog, {"chdir"}) : klog[i][2] = config.working_directory}
        opens == {i \in 1..Len(klog) : OpName(klog[i]) \in {"open", "create"}}
        redirections == Len(SelectSeq(<< config.stdin, config.stdout, config.stderr >>, IsSome))
    IN /\ execs # {} => Before(PositionsOf(klog, {"chroot"}), execs) /\ Before(chdirs, execs)
       /\ chroots # {} => Before(RootRemounts(klog), chroots)
       /\ \A i \in opens : \A j \in chroots : i < j
       /\ chroots # {} => Cardinality(PositionsOf(klog, {"open", "create"})) = redirections

\* The user program has been executed with a redirection of stdin.
C29_Witness ==
    /\ Performed(klog, "execve")
    /\ Performed(klog, "open")
    /\ Performed(klog, "chdir")

\* The bind mounts of the configured entries in the log, in order.
BindMounts(log) ==
    SelectSeq(log, LAMBDA op : op[1] = "mount" /\ "MS_BIND" \in op[5] /\ "MS_REMOUNT" \notin op[5])

\* The position of the k-th bind mount.
BindAt(log, k) ==
    CHOOSE i \in 1..Len(log) :
        /\ log[i][1] = "mount" /\ "MS_BIND" \in log[i][5] /\ "MS_REMOUNT" \notin log[i][5]
        /\ Len(BindMounts(SubSeq(log, 1, i))) = k

\* The operations that precede the entries: the root tmpfs, the four device
\* nodes, the tmpfs of /tmp and /dev/shm with mount_tmpfs, and /proc with
\* mount_proc.
PreambleDone(log, c) ==
    /\ \E i \in PositionsOf(log, {"mount"}) : log[i][3] = RootPath /\ log[i][4] = "tmpfs"
    /\ Cardinality(PositionsOf(log, {"mknod"})) = 4
    /\ c.mount_tmpfs =>
          \A t \in {PTmp, PDevShm} :
              \E i \in PositionsOf(log, {"mount"}) : log[i][3] = t /\ log[i][4] = "tmpfs"
    /\ c.mount_proc =>
          \E i \in PositionsOf(log, {"mount"}) : log[i][3] = <<"/", "proc">>

\* C30: the bind mounts of the log are those of the configured entries in
\* declared order; the first comes after the root tmpfs, the device nodes,
\* the tmpfs of /tmp and /dev/shm if configured and /proc if configured;
\* the mount operation after the bind mount of a read-only entry is the
\* read-only remount of that entry; and no mount operation follows the
\* read-only remount of the root.
C30_AssemblyOrder ==
    LET binds == BindMounts(klog)
        mounts == PositionsOf(klog, {"mount"})
    IN /\ Len(binds) <= Len(config.mount_paths)
       /\ \A k \in 1..Len(binds) :
             LET dir == config.mount_paths[k]
                 at == BindAt(klog, k)
                 later == {j \in 1..Len(klog) : j > at /\ OpName(klog[j]) = "mount"}
             IN /\ binds[k][2] = dir.source /\ binds[k][3] = dir.target
                /\ PreambleDone(SubSeq(klog, 1, at), config)
                /\ (~dir.writable /\ later # {}) =>
                      LET next == CHOOSE j \in later : \A l \in later : j <= l
                      IN /\ OpName(klog[next]) = "mount"
                         /\ klog[next][1] = "mount" =>
                               /\ klog[next][3] = dir.target
                               /\ {"MS_REMOUNT", "MS_RDONLY", "MS_BIND"} \subseteq klog[next][5]
       /\ \A i \in RootRemounts(klog) : \A j \in mounts : j <= i

\* The failures of the log whose cause is a path that does not exist inside
\* the sandbox root: the chdir to working_directory and the check of the
\* executable.
MissingPathFailures(log) ==
    {j \in 1..Len(log) :
        /\ log[j][1] = "failed"
        /\ log[j][2][1] \in {"chdir", "assert_exists"}
        /\ ~SandboxExists(SubSeq(log, 1, j - 1), log[j][2][2])}

\* C31: after chroot, a configured executable or working_directory that
\* does not exist inside the sandbox root makes the setup fail with the
\* hint that a mount is missing, and execve is not attempted; an attempted
\* execve means both paths exist.
C31_MissingPathsFailWithHint ==
    /\ \A j \in MissingPathFailures(klog) :
          /\ j = Len(klog)
          /\ PanicMessage(klog[j][2]).hint
    /\ \A i \in 1..Len(klog) :
          OpName(klog[i]) = "execve" =>
              /\ SandboxExists(SubSeq(klog, 1, i - 1), config.executable)
              /\ SandboxExists(SubSeq(klog, 1, i - 1), config.working_directory)

\* A mount entry no configuration may hold: its target is "/" or is not an
\* absolute path.
InvalidTarget(dir) == dir.target = RootPath \/ dir.target = <<>> \/ Head(dir.target) # "/"

HasInvalidEntry(c) ==
    \E i \in 1..Len(c.mount_paths) : InvalidTarget(c.mount_paths[i])

\* C32: a configuration with a mount entry whose target is "/" or is not
\* absolute is rejected with an error before the child is cloned: run() does
\* not return Ok and no child ever exists; and no bind mount is performed
\* onto the sandbox root.
C32_InvalidMountRejectedBeforeClone ==
    /\ HasInvalidEntry(config) =>
          /\ proc = "none"
          /\ runResult # "Ok"
    /\ \A i \in 1..Len(klog) :
          (OpName(klog[i]) = "mount" /\ klog[i][1] = "mount" /\ "MS_BIND" \in klog[i][5])
              => klog[i][3] # RootPath

\* The child has returned from setup_resource_limits().
LimitsInstalled ==
    childPc \in {"setup_syscall_filter", "setup_io_redirection", "setup_thread_affinity",
                 "enter_chroot", "exec_child", "running"}

\* The limit installed for a resource is the configured one, and none is
\* installed when none is configured.
InstalledIff(log, resource, limit) ==
    InstalledLimit(log, resource) =
        IF IsSome(limit) THEN Some(<< Unwrap(limit), Unwrap(limit) >>) ELSE None

WallSpawned == wallPc # "none"

\* C34: a wall time watcher thread exists only when wall_time_limit is set
\* and the clone of the child has returned in the watcher; the step that
\* spawns it is a step of the watcher after its clone, and it is not a step
\* of the cloned child.
C34_WallThreadAfterCloneInParent ==
    /\ [](WallSpawned =>
            /\ IsSome(config.wall_time_limit)
            /\ proc # "none"
            /\ watcherPc \notin {"none", "tempdir", "clone"})
    /\ [][(~WallSpawned /\ WallSpawned') =>
            /\ watcherPc = "spawn_wall" /\ watcherPc' = "wait4"
            /\ proc # "none"
            /\ UNCHANGED << childPc, klog >>]_vars

\* The wall time watcher thread sleeps while the child is still in its setup.
C34_Witness ==
    /\ platform = "linux" /\ wallPc = "sleep"
    /\ proc = "alive" /\ childPc = "setup_filesystem"

\* The kill of the wall time watcher thread has succeeded: the process that
\* holds child_pid has received SIGKILL.
WallKillDelivered == wallPc = "sleep" /\ wallPc' = "store"

\* C35: no step of the wall time watcher thread delivers SIGKILL to the
\* child's PID once wait4 has reaped the child or the result has been
\* produced.
C35_NoKillAfterReap ==
    [][WallKillDelivered => (proc # "reaped" /\ result = None)]_vars

\* The child has performed execve: what terminates afterwards is the user
\* program.
ProgramStarted == \E i \in 1..Len(klog) : klog[i][1] = "execve"

\* The wait status is not the one SIGKILL leaves: the user program has ended
\* by its own exit or by another signal, before any SIGKILL reached it.
EndedOnItsOwn == ProgramStarted /\ status # SignaledStatus(SIGKILL)

\* C36: when the user program has terminated on its own, the reported status
\* is the ExitCode or the Signal of its wait status, never Killed.
C36_OwnTerminationIsNotKilled ==
    (platform = "linux" /\ IsSome(result) /\ EndedOnItsOwn) =>
        /\ Unwrap(result) # Killed
        /\ Unwrap(result) = TranslateStatus(FALSE, status)

\* C37: without wall_time_limit the Linux backend has no wall time watcher
\* thread, the killed flag is false, no SIGKILL has been sent by the
\* sandbox, and neither the watcher's result nor the outcome of wait() is
\* Killed.
C37_NoWallLimitNeverKilled ==
    (platform = "linux" /\ ~IsSome(config.wall_time_limit)) =>
        /\ wallPc = "none"
        /\ ~killed
        /\ ~sigkillSent
        /\ IsSome(result) => Unwrap(result) # Killed
        /\ waitOutcome # <<"Ok", Killed>>

\* Without wall_time_limit the kernel has ended the user program with
\* SIGKILL and wait() has returned Signal(SIGKILL).
C37_Witness ==
    /\ platform = "linux" /\ ~IsSome(config.wall_time_limit)
    /\ ProgramStarted /\ status = SignaledStatus(SIGKILL)
    /\ waitOutcome = <<"Ok", Signal(SIGKILL)>>

(***************************************************************************)
(* A caller that starts from SandboxConfiguration::default(), calls        *)
(* setters and takes a build(): fnIn is the sequence of setter calls made  *)
(* so far, config the receiver, fnOut what build() has returned.           *)
(***************************************************************************)
MaxSetterCalls == 3

\* Calls of every setter; two values for some of them.
AllSetterCalls ==
    { <<"time_limit", 1>>, <<"time_limit", 2>>, <<"memory_limit", 1>>,
      <<"stack_limit", 1>>, <<"stdin", PIn>>, <<"stdout", POut>>, <<"stderr", PErr>>,
      <<"executable", PBin>>, <<"working_directory", PWork>>,
      <<"arg", ArgC>>, <<"arg", ArgX>>, <<"env", EnvA1>>,
      <<"mount", DirectoryMount(PWork, PWork, TRUE)>>,
      <<"syscall_filter", SyscallFilterDefault>>,
      <<"mount_tmpfs", TRUE>>, <<"mount_tmpfs", FALSE>>,
      <<"wall_time_limit", 1>>, <<"run_on_core", 0>>,
      <<"uid", 1>>, <<"uid", 2>>, <<"gid", 1>>,
      <<"mount_proc", TRUE>>, <<"mount_proc", FALSE>> }

\* build(): self.clone().
Build(c) == c

SetterInit ==
    /\ config = DefaultConfiguration
    /\ progHalts = FALSE
    /\ host = DefaultHost
    /\ platform = "linux"
    /\ IdleState
    /\ fnIn = <<>>
    /\ fnOut = <<>>

CallSetter ==
    /\ Len(fnIn) < MaxSetterCalls
    /\ \E call \in AllSetterCalls :
          /\ config' = ApplySetter(config, call)
          /\ fnIn' = Append(fnIn, call)
    /\ UNCHANGED << fnOut, progHalts, host, outerVars, callerVars, watcherVars, wallVars, procVars >>

CallBuild ==
    /\ fnOut = <<>>
    /\ fnOut' = << Build(config) >>
    /\ UNCHANGED << fnIn, outerVars, callerVars, watcherVars, wallVars, procVars, envVars >>

SetterNext == CallSetter \/ CallBuild

SetterSpec == SetterInit /\ [][SetterNext]_vars

\* The field a setter writes, the setters of the fields that hold one
\* value, and those whose field is an Option.
FieldOf(name) ==
    CASE name = "arg" -> "args"
      [] name = "mount" -> "mount_paths"
      [] name = "run_on_core" -> "cpu_core"
      [] OTHER -> name

PushSetters == {"arg", "env", "mount"}

OptionSetters ==
    {"time_limit", "memory_limit", "stack_limit", "stdin", "stdout", "stderr",
     "syscall_filter", "wall_time_limit", "run_on_core"}

ScalarSetters ==
    OptionSetters \cup {"executable", "working_directory", "mount_tmpfs", "uid", "gid",
                        "mount_proc"}

\* The arguments of the calls of one setter, in the order of the calls.
RECURSIVE ValuesOf(_, _)
ValuesOf(calls, name) ==
    IF calls = <<>> THEN <<>>
    ELSE (IF Head(calls)[1] = name THEN << Head(calls)[2] >> ELSE <<>>)
         \o ValuesOf(Tail(calls), name)

\* What a scalar field holds after the calls: the argument of the last call
\* of its setter, or the default.
LastOrDefault(calls, name) ==
    LET values == ValuesOf(calls, name)
    IN IF values = <<>> THEN DefaultConfiguration[FieldOf(name)]
       ELSE IF name \in OptionSetters THEN Some(values[Len(values)])
       ELSE values[Len(values)]

\* C38: after any sequence of setter calls on default(), every scalar field
\* holds the argument of the last call of its setter or its default, and
\* args, env and mount_paths hold the arguments of their calls in call order;
\* a setter call changes its own field only and arg, env and mount append
\* one element at the end; build() returns a configuration equal to the
\* receiver and leaves the receiver unchanged.
C38_SetterFrames ==
    /\ [](/\ \A name \in ScalarSetters :
               config[FieldOf(name)] = LastOrDefault(fnIn, name)
          /\ \A name \in PushSetters :
               config[FieldOf(name)] = ValuesOf(fnIn, name))
    /\ [][/\ fnIn' # fnIn =>
               LET call == fnIn'[Len(fnIn')]
               IN /\ \A field \in DOMAIN config \ {FieldOf(call[1])} :
                        config'[field] = config[field]
                  /\ call[1] \in PushSetters =>
                        config'[FieldOf(call[1])] = Append(config[FieldOf(call[1])], call[2])
          /\ fnOut' # fnOut =>
               /\ fnOut' = << config >>
               /\ config' = config]_vars

\* After uid(1), arg("-c") and arg("x"), build() has returned the receiver's
\* value.
C38_Witness ==
    /\ fnIn = << <<"uid", 1>>, <<"arg", ArgC>>, <<"arg", ArgX>> >>
    /\ config.args = << ArgC, ArgX >> /\ config.uid = 1 /\ config.gid = 0
    /\ fnOut = << config >>

(***************************************************************************)
(* A caller that starts from SyscallFilter::default(), calls add_rule()    *)
(* and default_action(), gives the filter to the configuration and runs    *)
(* the sandbox: fnIn is the sequence of calls on the filter, fnOut holds   *)
(* the filter.                                                             *)
(***************************************************************************)
MaxFilterCalls == 2

FilterActions == {Allow, Errno(1)}

FilterSyscalls == {"fork", "getuid", "nosuchcall"}

\* The rest of the configuration: /bin, where the executable is.
FilterBaseCalls == << <<"mount", DirectoryMount(PBin, PBin, FALSE)>> >>

FilterInit ==
    /\ config = ApplySetters(DefaultConfiguration, FilterBaseCalls)
    /\ progHalts = FALSE
    /\ host = DefaultHost
    /\ platform = "linux"
    /\ IdleState
    /\ fnIn = <<>>
    /\ fnOut = << SyscallFilterDefault >>

FilterAddRule ==
    /\ callerPc = "run"
    /\ ~IsSome(config.syscall_filter)
    /\ Len(fnIn) < MaxFilterCalls
    /\ \E syscall \in FilterSyscalls, action \in FilterActions :
          /\ fnOut' = << AddRule(fnOut[1], syscall, action) >>
          /\ fnIn' = Append(fnIn, <<"add_rule", syscall, action>>)
    /\ UNCHANGED << outerVars, callerVars, watcherVars, wallVars, procVars, envVars >>

FilterDefaultAction ==
    /\ callerPc = "run"
    /\ ~IsSome(config.syscall_filter)
    /\ Len(fnIn) < MaxFilterCalls
    /\ \E action \in FilterActions :
          /\ fnOut' = << SetDefaultAction(fnOut[1], action) >>
          /\ fnIn' = Append(fnIn, <<"default_action", action>>)
    /\ UNCHANGED << outerVars, callerVars, watcherVars, wallVars, procVars, envVars >>

\* config.syscall_filter(filter)
FilterInstall ==
    /\ callerPc = "run"
    /\ ~IsSome(config.syscall_filter)
    /\ config' = ApplySetter(config, <<"syscall_filter", fnOut[1]>>)
    /\ UNCHANGED << fnVars, outerVars, progHalts, host, callerVars, watcherVars, wallVars, procVars >>

\* The steps of the caller and of a run without wall_time_limit: no wall
\* time watcher thread is spawned.
FilterNext ==
    \/ FilterAddRule
    \/ FilterDefaultAction
    \/ FilterInstall
    \/ Run
    \/ Wait
    \/ WatcherTempDir
    \/ WatcherClone
    \/ WatcherSpawnWall
    \/ WatcherWait4
    \/ WatcherResult
    \/ ChildPrelude
    \/ ChildSetupFilesystem
    \/ ChildSetupResourceLimits
    \/ ChildSetupSyscallFilter
    \/ ChildSetupIoRedirection
    \/ ChildSetupThreadAffinity
    \/ ChildEnterChroot
    \/ ChildExec
    \/ ChildPanicExit
    \/ ProgExit
    \/ ProgSignal

FilterSpec == FilterInit /\ [][FilterNext]_vars

\* The rules and the default action that calls on SyscallFilter::default()
\* are to leave.
RECURSIVE RulesOf(_)
RulesOf(calls) ==
    IF calls = <<>> THEN <<>>
    ELSE (IF Head(calls)[1] = "add_rule"
          THEN << << Head(calls)[2], Head(calls)[3] >> >> ELSE <<>>)
         \o RulesOf(Tail(calls))

DefaultActionOf(calls) ==
    LET idx == {i \in 1..Len(calls) : calls[i][1] = "default_action"}
    IN IF idx = {} THEN Kill ELSE calls[MaxOf(idx)][2]

\* The calls of SeccompFilter::filter() in the log of the child, the name
\* each was called with, and whether one of them has failed.
RuleAttempts(log) ==
    SelectSeq(log, LAMBDA op :
        OpName(op) \in {"seccomp_rule_add", "seccomp_syscall_resolve_name"})

AttemptName(op) == IF op[1] = "failed" THEN op[2][2] ELSE op[2]

\* What the kernel filter holds when every configured rule has been added.
ConfiguredFilter(f) ==
    [default_action |-> ToSeccompParam(f.default_action),
     rules |-> [i \in 1..Len(f.rules) |-> << f.rules[i][1], ToSeccompParam(f.rules[i][2]) >>]]

\* C39: a filter built from SyscallFilter::default() has default action Kill
\* unless default_action() was called, then the action of the last call, and
\* as its rules the arguments of the add_rule() calls in call order;
\* add_rule() appends at the end and leaves the default action unchanged,
\* default_action() leaves the rules unchanged.  In the child the rules are
\* handed to the kernel filter one by one in configured order, all before
\* seccomp_load, and when none of these calls has failed the loaded filter
\* holds the configured default action and rules in configured order.
C39_FilterRulesInOrder ==
    /\ [](/\ fnOut[1].default_action = DefaultActionOf(fnIn)
          /\ fnOut[1].rules = RulesOf(fnIn)
          /\ IsSome(config.syscall_filter) =>
                LET f == Unwrap(config.syscall_filter)
                    attempts == RuleAttempts(klog)
                IN /\ f = fnOut[1]
                   /\ Len(attempts) \in {0, Len(f.rules)}
                   /\ \A i \in 1..Len(attempts) : AttemptName(attempts[i]) = f.rules[i][1]
                   /\ \A i, j \in 1..Len(klog) :
                         (/\ OpName(klog[i]) \in {"seccomp_rule_add", "seccomp_syscall_resolve_name"}
                          /\ OpName(klog[j]) = "seccomp_load") => i < j
                   /\ (IsSome(LoadedFilter(klog))
                       /\ \A i \in 1..Len(attempts) : attempts[i][1] # "failed")
                         => Unwrap(LoadedFilter(klog)) = ConfiguredFilter(f))
    /\ [][fnIn' # fnIn =>
            LET call == fnIn'[Len(fnIn')]
            IN IF call[1] = "add_rule"
               THEN /\ fnOut'[1].rules = Append(fnOut[1].rules, << call[2], call[3] >>)
                    /\ fnOut'[1].default_action = fnOut[1].default_action
               ELSE /\ fnOut'[1].default_action = call[2]
                    /\ fnOut'[1].rules = fnOut[1].rules]_vars

\* A filter with default action Kill and the rules (fork, Allow),
\* (getuid, Errno(1)) in this order has been loaded in the child.
C39_Witness ==
    /\ fnIn = << <<"add_rule", "fork", Allow>>, <<"add_rule", "getuid", Errno(1)>> >>
    /\ IsSome(LoadedFilter(klog))
    /\ Unwrap(LoadedFilter(klog)).rules =
          << <<"fork", ToSeccompParam(Allow)>>, <<"getuid", ToSeccompParam(Errno(1))>> >>
    /\ Unwrap(LoadedFilter(klog)).default_action = ToSeccompParam(Kill)

====
